---------------------------- MODULE Spec2Model ----------------------------
(***************************************************************************)
(* Radio mode of AetherBot: the recommendation engine, the radio service   *)
(* and core (bin/cogs/music/radio), the stand-alone RadioCog               *)
(* (bin/cogs/music/radiocog.py) and the title heuristics they rest on      *)
(* (bin/utils/title_processor.py, radio/content_analyzer.py).              *)
(*                                                                         *)
(* Python strings are TLA+ strings; the str methods and regular            *)
(* expressions the code uses are written out as operators on them.         *)
(***************************************************************************)
EXTENDS Integers, Sequences, FiniteSets, TLC

None == "<None>"

-----------------------------------------------------------------------------
(* Python str primitives                                                   *)

UpperChars == "ABCDEFGHIJKLMNOPQRSTUVWXYZ"
LowerChars == "abcdefghijklmnopqrstuvwxyz"
DigitChars == "0123456789"
AsciiPunct == " !\"#$%&'()*+,-./:;<=>?@[\\]^_{|}~"

CharAt(s, i) == SubSeq(s, i, i)

IndexIn(c, alphabet) ==
    IF \E i \in 1..Len(alphabet) : CharAt(alphabet, i) = c
    THEN CHOOSE i \in 1..Len(alphabet) : CharAt(alphabet, i) = c
    ELSE 0

IsUpperChar(c) == IndexIn(c, UpperChars) > 0
IsLowerChar(c) == IndexIn(c, LowerChars) > 0
IsDigitChar(c) == IndexIn(c, DigitChars) > 0
IsSpaceChar(c) == c = " "
\* ord(char) > 127
IsNonAscii(c) ==
    ~(IsUpperChar(c) \/ IsLowerChar(c) \/ IsDigitChar(c) \/ IndexIn(c, AsciiPunct) > 0)
\* \w; "é" is the one non-ASCII character the titles of the model carry
IsWordChar(c) ==
    IsUpperChar(c) \/ IsLowerChar(c) \/ IsDigitChar(c) \/ c = "_" \/ c = "é"

LowerChar(c) ==
    LET i == IndexIn(c, UpperChars) IN IF i = 0 THEN c ELSE CharAt(LowerChars, i)

RECURSIVE Lower(_)
\* str.lower()
Lower(s) == IF s = "" THEN "" ELSE LowerChar(Head(s)) \o Lower(Tail(s))

\* sub in s
Contains(s, sub) ==
    \E i \in 1..(Len(s) - Len(sub) + 1) : SubSeq(s, i, i + Len(sub) - 1) = sub

\* s.find(sub) + 1: the 1-based index of the first occurrence, 0 when absent
Find(s, sub) ==
    IF Contains(s, sub)
    THEN CHOOSE i \in 1..(Len(s) - Len(sub) + 1) :
            /\ SubSeq(s, i, i + Len(sub) - 1) = sub
            /\ \A j \in 1..(i - 1) : SubSeq(s, j, j + Len(sub) - 1) # sub
    ELSE 0

From(s, i) == SubSeq(s, i, Len(s))

RECURSIVE Split(_, _)
\* s.split(sep), sep non-empty
Split(s, sep) ==
    LET i == Find(s, sep) IN
    IF i = 0 THEN <<s>>
    ELSE <<SubSeq(s, 1, i - 1)>> \o Split(From(s, i + Len(sep)), sep)

\* s.split(sep, 1)
Split1(s, sep) ==
    LET i == Find(s, sep) IN
    IF i = 0 THEN <<s>> ELSE <<SubSeq(s, 1, i - 1), From(s, i + Len(sep))>>

RECURSIVE Replace(_, _)
\* s.replace(old, '')
Replace(s, old) ==
    LET i == Find(s, old) IN
    IF i = 0 THEN s
    ELSE SubSeq(s, 1, i - 1) \o Replace(From(s, i + Len(old)), old)

RECURSIVE Count(_, _)
\* s.count(sub)
Count(s, sub) ==
    LET i == Find(s, sub) IN
    IF i = 0 THEN 0 ELSE 1 + Count(From(s, i + Len(sub)), sub)

RECURSIVE LStrip(_)
LStrip(s) == IF s # "" /\ IsSpaceChar(Head(s)) THEN LStrip(Tail(s)) ELSE s

RECURSIVE RStrip(_)
RStrip(s) ==
    IF s # "" /\ IsSpaceChar(CharAt(s, Len(s)))
    THEN RStrip(SubSeq(s, 1, Len(s) - 1)) ELSE s

\* s.strip()
Strip(s) == RStrip(LStrip(s))

RECURSIVE TakeWord(_)
TakeWord(s) ==
    IF s = "" \/ IsSpaceChar(Head(s)) THEN "" ELSE Head(s) \o TakeWord(Tail(s))

RECURSIVE Words(_)
\* s.split()
Words(s) ==
    LET t == LStrip(s) IN
    IF t = "" THEN <<>>
    ELSE LET w == TakeWord(t) IN <<w>> \o Words(From(t, Len(w) + 1))

\* word.isupper(): some cased character and no lower-case one
IsUpperStr(w) ==
    /\ \E i \in 1..Len(w) : IsUpperChar(CharAt(w, i))
    /\ \A i \in 1..Len(w) : ~IsLowerChar(CharAt(w, i))

RECURSIVE RemoveSpecial(_)
\* re.sub(r'[^\w\s\-]', '', s)
RemoveSpecial(s) ==
    IF s = "" THEN ""
    ELSE (IF IsWordChar(Head(s)) \/ IsSpaceChar(Head(s)) \/ Head(s) = "-"
          THEN Head(s) ELSE "") \o RemoveSpecial(Tail(s))

RECURSIVE RemoveNonWord(_)
\* re.sub(r'[^\w]', '', s)
RemoveNonWord(s) ==
    IF s = "" THEN ""
    ELSE (IF IsWordChar(Head(s)) THEN Head(s) ELSE "") \o RemoveNonWord(Tail(s))

\* re.sub(open .*? close, '', s)
RECURSIVE RemoveDelimited(_, _, _)
RemoveDelimited(s, open, close) ==
    LET i == Find(s, open) IN
    IF i = 0 THEN s
    ELSE LET rest == From(s, i + 1)
             j == Find(rest, close)
         IN IF j = 0 THEN s
            ELSE SubSeq(s, 1, i - 1) \o RemoveDelimited(From(rest, j + 1), open, close)

RECURSIVE CollapseSpaces(_)
\* re.sub(r'\s+', ' ', s)
CollapseSpaces(s) ==
    IF s = "" THEN ""
    ELSE IF IsSpaceChar(Head(s)) THEN " " \o CollapseSpaces(LStrip(s))
    ELSE Head(s) \o CollapseSpaces(Tail(s))

\* re.search(r'\b' + re.escape(term) + r'\b', s)
HasWholeWord(s, term) ==
    \E i \in 1..(Len(s) - Len(term) + 1) :
        /\ SubSeq(s, i, i + Len(term) - 1) = term
        /\ LET first == IsWordChar(CharAt(term, 1))
               last  == IsWordChar(CharAt(term, Len(term)))
               before == i > 1 /\ IsWordChar(CharAt(s, i - 1))
               after  == i + Len(term) <= Len(s) /\ IsWordChar(CharAt(s, i + Len(term)))
           IN first # before /\ last # after

\* re.search(r'\b20\d\d\b', s)
HasYear(s) ==
    \E i \in 1..(Len(s) - 3) :
        /\ SubSeq(s, i, i + 1) = "20"
        /\ IsDigitChar(CharAt(s, i + 2)) /\ IsDigitChar(CharAt(s, i + 3))
        /\ ~(i > 1 /\ IsWordChar(CharAt(s, i - 1)))
        /\ ~(i + 4 <= Len(s) /\ IsWordChar(CharAt(s, i + 4)))

\* Python truthiness of an Optional[str]
Truthy(s) == s # None /\ s # ""

-----------------------------------------------------------------------------
(* bin/utils/title_processor.py: TitleProcessor                            *)

InSeq(x, seq) == \E i \in 1..Len(seq) : seq[i] = x

Range(seq) == {seq[i] : i \in 1..Len(seq)}

SetMax(s) == CHOOSE x \in s : \A y \in s : y <= x

SetMin(s) == CHOOSE x \in s : \A y \in s : x <= y

\* the first of a, b and c that is not None
FirstNotNone(a, b, c) == IF a # None THEN a ELSE IF b # None THEN b ELSE c

\* any(keyword in s for keyword in keywords)
AnyIn(keywords, s) == \E i \in 1..Len(keywords) : Contains(s, keywords[i])

genre_map ==
    <<
      <<"rock",
        <<
          "rock", "alternative", "indie rock", "classic rock", "hard rock",
          "punk", "grunge"
        >> >>,
      <<"metal",
        <<
          "metal", "heavy metal", "death metal", "black metal",
          "thrash metal", "metalcore"
        >> >>,
      <<"electronic",
        <<
          "electronic", "electronica", "edm", "techno", "house", "trance",
          "dubstep", "drum and bass", "dnb"
        >> >>,
      <<"house",
        <<
          "house", "deep house", "progressive house", "tech house",
          "future house"
        >> >>,
      <<"trance",
        <<
          "trance", "uplifting trance", "vocal trance", "progressive trance"
        >> >>,
      <<"ambient",
        <<
          "ambient", "chill", "downtempo", "lofi", "lo-fi", "chillhop"
        >> >>,
      <<"hip hop",
        <<
          "hip hop", "rap", "trap", "gangsta rap", "boom bap", "drill"
        >> >>,
      <<"pop",
        <<
          "pop", "pop rock", "synth pop", "k-pop", "j-pop", "dance pop"
        >> >>,
      <<"country",
        <<
          "country", "country rock", "country pop", "bluegrass"
        >> >>,
      <<"jazz",
        <<
          "jazz", "smooth jazz", "bebop", "swing"
        >> >>,
      <<"classical",
        <<
          "classical", "orchestra", "symphony", "piano", "violin"
        >> >>,
      <<"blues",
        <<
          "blues", "rhythm and blues", "r&b", "soul"
        >> >>,
      <<"reggae",
        <<
          "reggae", "dancehall", "ska", "dub"
        >> >>,
      <<"folk",
        <<
          "folk", "singer-songwriter", "acoustic", "indie folk"
        >> >>,
      <<"world",
        <<
          "world", "latin", "afrobeat", "bossa nova", "samba"
        >> >>
    >>

RECURSIVE FlattenGenres(_)
FlattenGenres(i) ==
    IF i > Len(genre_map) THEN <<>>
    ELSE <<genre_map[i][1]>> \o genre_map[i][2] \o FlattenGenres(i + 1)

all_genre_terms == FlattenGenres(1)

mood_map ==
    <<
      <<"energetic",
        <<
          "energetic", "upbeat", "party", "dance", "hype", "workout",
          "energy", "powerful"
        >> >>,
      <<"relaxing",
        <<
          "relaxing", "chill", "calm", "peaceful", "ambient", "sleep",
          "meditation", "relax"
        >> >>,
      <<"happy",
        <<
          "happy", "cheerful", "uplifting", "positive", "fun", "joy",
          "bright", "feel good"
        >> >>,
      <<"sad",
        <<
          "sad", "melancholic", "emotional", "heartbreak", "sorrow", "tear",
          "cry", "depression"
        >> >>,
      <<"romantic",
        <<
          "romantic", "love", "passionate", "sensual", "intimate",
          "valentine", "romance"
        >> >>,
      <<"dark",
        <<
          "dark", "intense", "aggressive", "angry", "rage", "fury", "heavy"
        >> >>,
      <<"focus",
        <<
          "focus", "concentration", "study", "work", "productivity",
          "background"
        >> >>
    >>

title_extra_identifiers ==
    <<
      "[official music video]", "[official video]", "[music video]",
      "[audio]", "[lyrics]", "(official music video)", "(official video)",
      "(music video)", "(audio)", "(lyrics)", "| official music video",
      "| official video", "| music video", "| audio", "| lyrics",
      "official music video", "official video", "music video", "audio only",
      "lyrics", "[release]", "(release)", "| release", "[hd]", "(hd)",
      "| hd", "hd", "[4k]", "(4k)", "| 4k", "4k", "[bass boosted]",
      "(bass boosted)", "| bass boosted", "bass boosted", "[extended]",
      "(extended)", "| extended", "extended", "[remix]", "(remix)",
      "| remix", "[edit]", "(edit)", "| edit"
    >>

\* for rep in title_extra_identifiers[i..]: s = s.replace(rep, '')
ReplaceEach[s \in STRING, i \in Nat] ==
    IF i > Len(title_extra_identifiers) THEN s
    ELSE ReplaceEach[Replace(s, title_extra_identifiers[i]), i + 1]

\* for extra in title_extra_identifiers[i..]: s = s.replace(extra, '').strip()
ReplaceStripEach[s \in STRING, i \in Nat] ==
    IF i > Len(title_extra_identifiers) THEN s
    ELSE ReplaceStripEach[Strip(Replace(s, title_extra_identifiers[i])), i + 1]

extract_core_title(title) ==
    IF ~Truthy(title) THEN ""
    ELSE LET lowered    == Lower(title)
             unbranded  == ReplaceEach[lowered, 1]
             nosquare   == RemoveDelimited(unbranded, "[", "]")
             noround    == RemoveDelimited(nosquare, "(", ")")
             nopipes    == RemoveDelimited(noround, "|", "|")
             nospecial  == RemoveSpecial(nopipes)
         IN Strip(CollapseSpaces(nospecial))

\* "Artist - Title"
ArtistBeforeDash(title) ==
    IF Contains(title, " - ")
    THEN LET artist == Strip(Split(title, " - ")[1])
         IN IF artist # "" /\ Len(artist) > 1 /\ Len(artist) < 30 THEN artist ELSE None
    ELSE None

\* "Title [Artist Release]"
ArtistInBrackets(title) ==
    IF Contains(title, "[") /\ Contains(title, "]")
    THEN LET Inside(part) == Strip(Split(part, "]")[1])
             Takes(part, artist_candidate) ==
                 /\ Contains(part, "]")
                 /\ ~AnyIn(<<"release", "feat", "ft">>, Lower(part))
                 /\ Len(Words(artist_candidate)) <= 3
                 /\ Len(artist_candidate) > 2
             FirstOf(parts, taken) ==
                 IF taken = {} THEN None ELSE Inside(parts[SetMin(taken)])
             Among(parts) ==
                 FirstOf(parts, {i \in 1..Len(parts) : Takes(parts[i], Inside(parts[i]))})
         IN Among(Split(title, "["))
    ELSE None

feat_markers == <<"feat.", "ft.", "featuring">>
end_markers == <<")", "]", "-", "|">>

RECURSIVE CutAtEndMarkers(_, _)
CutAtEndMarkers(artist_part, i) ==
    IF i > Len(end_markers) THEN artist_part
    ELSE CutAtEndMarkers(
           IF Contains(artist_part, end_markers[i])
           THEN Strip(Split(artist_part, end_markers[i])[1])
           ELSE artist_part, i + 1)

\* "Title (feat. Artist)" or "Title ft. Artist"
ArtistAfterFeat(title) ==
    LET Part(lower_title, marker) ==
            CutAtEndMarkers(Strip(Split1(lower_title, marker)[2]), 1)
        Takes(lower_title, marker, artist_part) ==
            /\ Contains(lower_title, marker)
            /\ Len(artist_part) > 2
            /\ Len(Words(artist_part)) <= 3
        Cut(artist_part, original_idx) ==
            SubSeq(title, original_idx, original_idx + Len(artist_part) - 1)
        Original(lower_title, artist_part) ==
            Cut(artist_part, Find(lower_title, artist_part))
        FirstOf(lower_title, taken) ==
            IF taken = {} THEN None
            ELSE Original(lower_title, Part(lower_title, feat_markers[SetMin(taken)]))
        Among(lower_title) ==
            FirstOf(lower_title,
                    {m \in 1..Len(feat_markers) :
                        Takes(lower_title, feat_markers[m],
                              Part(lower_title, feat_markers[m]))})
    IN Among(Lower(title))

extract_artist(title) ==
    IF ~Truthy(title) THEN None
    ELSE FirstNotNone(ArtistBeforeDash(title), ArtistInBrackets(title),
                      ArtistAfterFeat(title))

RECURSIVE SpaceRun(_, _)
SpaceRun(s, j) ==
    IF j <= Len(s) /\ IsSpaceChar(CharAt(s, j)) THEN 1 + SpaceRun(s, j + 1) ELSE 0

\* featuring_patterns: keyword, then an optional "." where the pattern has
\* \.?, then \s+([^,\(\)\[\]]+), matched with re.IGNORECASE
featuring_patterns ==
    << <<"feat", TRUE>>, <<"ft", TRUE>>, <<"featuring", FALSE>>, <<"with", FALSE>> >>

FeaturingMatchesAt(lowered, i, pattern) ==
    LET kw == pattern[1]
        j0 == i + Len(kw)
        j  == IF pattern[2] /\ j0 <= Len(lowered) /\ CharAt(lowered, j0) = "."
              THEN j0 + 1 ELSE j0
        run == SpaceRun(lowered, j)
    IN /\ i + Len(kw) - 1 <= Len(lowered)
       /\ SubSeq(lowered, i, i + Len(kw) - 1) = kw
       /\ run >= 1
       /\ \/ run >= 2
          \/ /\ j + run <= Len(lowered)
             /\ ~InSeq(CharAt(lowered, j + run), <<",", "(", ")", "[", "]">>)

\* re.search(pattern, title, re.IGNORECASE).start() + 1, 0 when no match
FeaturingStart(title, pattern) ==
    LET First(hits) == IF hits = {} THEN 0 ELSE SetMin(hits)
        In(lowered) ==
            First({i \in 1..Len(lowered) : FeaturingMatchesAt(lowered, i, pattern)})
    IN In(Lower(title))

\* the text before the first featuring pattern that leaves a non-empty song
SongBeforeFeaturing(title) ==
    LET Before(start) == Strip(SubSeq(title, 1, start - 1))
        Takes(start) == start > 0 /\ Before(start) # ""
        FirstOf(starts, taken) ==
            IF taken = {} THEN None ELSE Before(starts[SetMin(taken)])
        Among(starts) == FirstOf(starts, {p \in 1..Len(starts) : Takes(starts[p])})
    IN Among([p \in 1..Len(featuring_patterns) |->
                FeaturingStart(title, featuring_patterns[p])])

\* re.search(r'^\s*' + artist + r'(?:\s*[\-:]\s*|\s+)', clean_title): the
\* text after the match, None when there is no match
AfterArtistPrefix(clean_title, artist) ==
    LET Rest(rest, tight) ==
            IF tight # "" /\ (Head(tight) = "-" \/ Head(tight) = ":")
            THEN LStrip(Tail(tight))
            ELSE IF rest # "" /\ IsSpaceChar(Head(rest)) THEN tight
            ELSE None
        After(rest) == Rest(rest, LStrip(rest))
        Match(body, a) ==
            IF Len(body) >= Len(a) /\ SubSeq(body, 1, Len(a)) = a
            THEN After(From(body, Len(a) + 1))
            ELSE None
    IN Match(LStrip(clean_title), Lower(artist))

extract_song_title(title, artist) ==
    IF ~Truthy(title) THEN None
    ELSE LET Cut(clean_title, after) ==
                 IF after # None /\ Strip(after) # ""
                 THEN Strip(SubSeq(clean_title, Len(clean_title) - Len(after) + 1,
                                   Len(clean_title)))
                 ELSE None
             ByArtist(clean_title, parts) ==
                 IF ~Truthy(artist) THEN None
                 ELSE IF Contains(title, " - ") /\ Lower(Strip(parts[1])) = Lower(artist)
                 THEN Strip(parts[2])
                 ELSE Cut(clean_title, AfterArtistPrefix(Lower(clean_title), artist))
             Song(clean_title, parts) ==
                 FirstNotNone(ByArtist(clean_title, parts),
                              SongBeforeFeaturing(title),
                              IF Contains(title, " - ")
                              THEN ReplaceStripEach[Strip(parts[2]), 1]
                              ELSE clean_title)
         IN Song(extract_core_title(title), Split1(title, " - "))

\* the first main genre whose name or sub-genre list holds the term
MainGenreOf(genre_term) ==
    LET Holds(i) == genre_map[i][1] = genre_term \/ InSeq(genre_term, genre_map[i][2])
    IN IF \E i \in 1..Len(genre_map) : Holds(i)
       THEN genre_map[CHOOSE i \in 1..Len(genre_map) :
                         Holds(i) /\ \A j \in 1..(i - 1) : ~Holds(j)][1]
       ELSE genre_term

\* detected_genres: the main genre of every term found as a whole word, each
\* main genre once, in the order of the first term that brings it in
detect_genres(title) ==
    IF ~Truthy(title) THEN <<>>
    ELSE LET Ordered(hits, main) ==
                 LET FirstHit(g) == SetMin({i \in hits : main[i] = g})
                     Sorted(found) ==
                         [k \in 1..Cardinality(found) |->
                             CHOOSE g \in found :
                                 Cardinality({h \in found : FirstHit(h) < FirstHit(g)}) + 1
                                     = k]
                 IN Sorted({main[i] : i \in hits})
             In(title_lower) ==
                 Ordered({i \in 1..Len(all_genre_terms) :
                             HasWholeWord(title_lower, all_genre_terms[i])},
                         [i \in 1..Len(all_genre_terms) |->
                             MainGenreOf(all_genre_terms[i])])
         IN In(Lower(title))

RECURSIVE DetectMoodsFrom(_, _)
DetectMoodsFrom(title_lower, i) ==
    IF i > Len(mood_map) THEN <<>>
    ELSE (IF AnyIn(mood_map[i][2], title_lower) THEN <<mood_map[i][1]>> ELSE <<>>)
         \o DetectMoodsFrom(title_lower, i + 1)

detect_moods(title) ==
    IF ~Truthy(title) THEN <<>> ELSE DetectMoodsFrom(Lower(title), 1)

\* The dict parse_title_info returns, without featuring_artists, which no
\* caller reads.
parse_title_info(title) ==
    IF ~Truthy(title)
    THEN [artist |-> None, song_title |-> None, genres |-> <<>>, moods |-> <<>>]
    ELSE LET Info(artist) ==
                 [artist     |-> artist,
                  song_title |-> extract_song_title(title, artist),
                  genres     |-> detect_genres(title),
                  moods      |-> detect_moods(title)]
         IN Info(extract_artist(title))

get_song_fingerprint(title) ==
    LET Of(info) ==
            IF Truthy(info.artist) /\ Truthy(info.song_title)
            THEN RemoveNonWord(Lower(info.artist)) \o "_"
                 \o RemoveNonWord(Lower(info.song_title))
            ELSE RemoveNonWord(extract_core_title(title))
    IN Of(parse_title_info(title))

RECURSIVE CommonRun(_, _, _, _)
\* the length of the longest common run of a from i and b from j
CommonRun(a, i, b, j) ==
    IF i > Len(a) \/ j > Len(b) \/ CharAt(a, i) # CharAt(b, j) THEN 0
    ELSE 1 + CommonRun(a, i + 1, b, j + 1)

RECURSIVE MatchingSize(_, _)
\* The sum of the sizes of difflib.SequenceMatcher(None, a, b)
\* .get_matching_blocks(): find_longest_match takes the longest block, the
\* one starting earliest in a and then earliest in b, and the search goes on
\* to its left and to its right.  No element is junk for strings shorter than
\* 200.
MatchingSize(a, b) ==
    IF a = "" \/ b = "" THEN 0
    ELSE LET runs == [i \in 1..Len(a) |-> [j \in 1..Len(b) |-> CommonRun(a, i, b, j)]]
             bestsize == SetMax({runs[i][j] : i \in 1..Len(a), j \in 1..Len(b)})
             besti == SetMin({i \in 1..Len(a) : \E j \in 1..Len(b) : runs[i][j] = bestsize})
             bestj == SetMin({j \in 1..Len(b) : runs[besti][j] = bestsize})
         IN IF bestsize = 0 THEN 0
            ELSE bestsize
                 + MatchingSize(SubSeq(a, 1, besti - 1), SubSeq(b, 1, bestj - 1))
                 + MatchingSize(SubSeq(a, besti + bestsize, Len(a)),
                                SubSeq(b, bestj + bestsize, Len(b)))

RECURSIVE GCD(_, _)
GCD(m, n) == IF n = 0 THEN m ELSE GCD(n, m % n)

\* Floats are fractions <<numerator, denominator>> in lowest terms with a
\* positive denominator.
Frac(n, d) == <<n \div GCD(n, d), d \div GCD(n, d)>>
FracAdd(x, y) == Frac(x[1] * y[2] + y[1] * x[2], x[2] * y[2])
FracMul(x, y) == Frac(x[1] * y[1], x[2] * y[2])
FracLess(x, y) == x[1] * y[2] < y[1] * x[2]

\* difflib.SequenceMatcher(None, a, b).ratio()
SequenceRatio(a, b) ==
    IF Len(a) + Len(b) = 0 THEN Frac(1, 1)
    ELSE Frac(2 * MatchingSize(a, b), Len(a) + Len(b))

\* calculate_similarity without its direct match
core_titles_match_never(core_title1, core_title2) == FALSE

\* `if core_title1 == core_title2` (title_processor.py 142)
core_titles_match(core_title1, core_title2) == core_title1 = core_title2

calculate_similarity(title1, title2) ==
    LET BothArtists(info1, info2) == Truthy(info1.artist) /\ Truthy(info2.artist)
        BothSongs(info1, info2) == Truthy(info1.song_title) /\ Truthy(info2.song_title)
        ArtistPart(info1, info2, artist_similarity) ==
            IF ~BothArtists(info1, info2) THEN Frac(0, 1)
            ELSE IF BothSongs(info1, info2)
                    /\ Lower(info1.song_title) = Lower(info2.song_title)
                    /\ FracLess(artist_similarity, Frac(7, 10))
            THEN FracMul(Frac(45, 200), artist_similarity)
            ELSE FracMul(Frac(45, 100), artist_similarity)
        SongPart(info1, info2) ==
            IF BothSongs(info1, info2)
            THEN FracMul(Frac(35, 100),
                         SequenceRatio(Lower(info1.song_title), Lower(info2.song_title)))
            ELSE Frac(0, 1)
        GenrePart(info1, info2) ==
            IF Range(info1.genres) \cap Range(info2.genres) # {}
            THEN Frac(20, 100) ELSE Frac(0, 1)
        Penalised(info1, info2, summed) ==
            IF get_song_fingerprint(title1) = get_song_fingerprint(title2)
               /\ BothArtists(info1, info2) /\ info1.artist # info2.artist
            THEN FracMul(summed, Frac(1, 2))
            ELSE summed
        Score(info1, info2) ==
            Penalised(info1, info2,
                FracAdd(FracAdd(ArtistPart(info1, info2,
                                    SequenceRatio(Lower(info1.artist), Lower(info2.artist))),
                                SongPart(info1, info2)),
                        GenrePart(info1, info2)))
        Capped(core1, core2, similarity_score) ==
            IF similarity_score[1] = 0 THEN SequenceRatio(core1, core2)
            ELSE IF FracLess(Frac(1, 1), similarity_score) THEN Frac(1, 1)
            ELSE similarity_score
        Compared(core1, core2) ==
            IF core_titles_match(core1, core2) THEN Frac(1, 1)
            ELSE Capped(core1, core2,
                        Score(parse_title_info(title1), parse_title_info(title2)))
    IN IF ~Truthy(title1) \/ ~Truthy(title2) THEN Frac(0, 1)
       ELSE Compared(extract_core_title(title1), extract_core_title(title2))

-----------------------------------------------------------------------------
(* bin/cogs/music/radio/content_analyzer.py: ContentAnalyzer               *)

GENRE_INDICATORS ==
    <<
      <<"hip hop",
        <<
          "hip hop", "rap", "hiphop", "trap", "drill", "boom bap"
        >> >>,
      <<"pop",
        <<
          "pop", "pop music", "top 40", "chart topping"
        >> >>,
      <<"rock",
        <<
          "rock", "alternative", "indie rock", "punk", "metal", "hard rock"
        >> >>,
      <<"electronic",
        <<
          "electronic", "edm", "dubstep", "house", "techno", "trance",
          "bass", "dnb", "drum and bass"
        >> >>,
      <<"r&b",
        <<
          "r&b", "rnb", "soul", "rhythm and blues"
        >> >>,
      <<"country",
        <<
          "country", "folk", "americana", "bluegrass"
        >> >>,
      <<"jazz",
        <<
          "jazz", "blues", "swing", "bebop"
        >> >>,
      <<"classical",
        <<
          "classical", "orchestra", "symphony", "chamber music"
        >> >>,
      <<"reggae",
        <<
          "reggae", "dancehall", "ska", "dub"
        >> >>,
      <<"latin",
        <<
          "latin", "salsa", "reggaeton", "bachata", "cumbia"
        >> >>
    >>

PLATFORMS_TO_GENRES ==
    <<
      <<"monstercat", "electronic">>,
      <<"owsla", "electronic">>,
      <<"mad decent", "electronic">>,
      <<"spinnin", "electronic">>,
      <<"anjuna", "electronic">>,
      <<"hospital records", "electronic">>,
      <<"ovo", "hip hop">>,
      <<"def jam", "hip hop">>,
      <<"aftermath", "hip hop">>,
      <<"top dawg", "hip hop">>,
      <<"ysl", "hip hop">>,
      <<"fueled by ramen", "rock">>,
      <<"epitaph", "rock">>,
      <<"roadrunner", "rock">>,
      <<"ninja tune", "electronic">>,
      <<"warp", "electronic">>
    >>

GENRE_TERMS ==
    <<
      "hip hop", "rap", "pop", "rock", "metal", "edm", "electronic", "r&b",
      "country", "jazz", "classical", "reggae", "latin", "house", "techno",
      "dubstep", "trap", "folk", "indie"
    >>

GENRE_MAPPINGS ==
    <<
      <<"rap", "hip hop">>,
      <<"trap", "hip hop">>,
      <<"house", "electronic">>,
      <<"techno", "electronic">>,
      <<"dubstep", "electronic">>,
      <<"edm", "electronic">>,
      <<"metal", "rock">>
    >>

ARTIST_GENRE_MAPPING ==
    <<
      <<"hip hop",
        <<
          "kendrick", "drake", "j cole", "dababy", "jay-z", "kanye",
          "travis scott", "eminem"
        >> >>,
      <<"pop",
        <<
          "taylor swift", "ariana", "justin", "ed sheeran", "billie eilish",
          "adele", "sia"
        >> >>,
      <<"rock",
        <<
          "metallica", "iron maiden", "slayer", "nirvana", "foo fighters",
          "green day"
        >> >>,
      <<"electronic",
        <<
          "avicii", "deadmau5", "skrillex", "tiesto", "martin garrix",
          "calvin harris"
        >> >>
    >>

album_indicators ==
    <<
      "full album", "complete album", "entire album", "album mix",
      "full mixtape", "complete mixtape", "compilation", "greatest hits",
      "best of", "all songs", "all tracks", "discography", "album playlist",
      "complete collection", "mix 20", "power mix", "party mix", "edm mix",
      "dj mix", "remix compilation", "remix pack", "megamix", "mixtape",
      "nonstop", "continuous mix", "year mix", "summer mix", "winter mix",
      "spring mix", "fall mix"
    >>

music_indicators ==
    <<
      "official audio", "official music", "official video", "lyrics",
      "audio", "explicit", "clean version", "ft.", "feat.", "remix",
      "prod. by", "prod by"
    >>

non_music_indicators ==
    <<
      "reaction", "reacts", "react to", "reacting", "interview",
      "interviewing", "speaks to", "conversation", "explains", "review",
      "reviews", "reviewing", "breakdown", "breaks down", "analysis",
      "talking about", "discusses", "discussing", "performed live",
      "performance at", "performs at", "vs.", "versus", "against", "loves",
      "hates", "feelings", "thinks", "first time hearing", "first listen",
      "reaction to", "behind the scenes", "making of", "studio session",
      "recap", "highlights", "best moments"
    >>

length_indicators ==
    <<
      "hour", "1h", "2h", "3h", "4h", "5h", "6h", "min mix", "minute mix",
      "hour mix", "extended", "long", "marathon"
    >>

artist_indicators ==
    <<
      " & ", " and ", " x ", " vs ", "featuring", "feat", "ft."
    >>

RECURSIVE SumCounts(_, _, _)
\* sum(s.count(indicator) for indicator in indicators)
SumCounts(s, indicators, i) ==
    IF i > Len(indicators) THEN 0
    ELSE Count(s, indicators[i]) + SumCounts(s, indicators, i + 1)

\* is_likely_music_content with the shape "Artist - Title" tested first
is_likely_music_content_positive_first(title) ==
    LET Shouting(words) ==
            \* caps_count / len(words) > 0.4
            /\ Len(words) > 3
            /\ 10 * Cardinality({i \in 1..Len(words) :
                                    IsUpperStr(words[i]) /\ Len(words[i]) > 2})
                 > 4 * Len(words)
        HasArtistAndSong(info) == Truthy(info.artist) /\ Truthy(info.song_title)
        Likely(title_lower, emoji_count) ==
            IF Contains(title, " - ") THEN TRUE
            ELSE IF AnyIn(album_indicators, title_lower) THEN FALSE
            ELSE IF AnyIn(non_music_indicators, title_lower) THEN FALSE
            ELSE IF Shouting(Words(title)) THEN FALSE
            ELSE IF emoji_count > 3 \/ Count(title, "!") > 3 THEN FALSE
            ELSE IF AnyIn(length_indicators, title_lower) THEN FALSE
            ELSE IF HasYear(title_lower)
                    /\ (Contains(title_lower, "mix") \/ Contains(title_lower, "set"))
                 THEN FALSE
            ELSE IF SumCounts(title_lower, artist_indicators, 1) > 2 THEN FALSE
            ELSE \/ Contains(title, " - ")
                 \/ (Contains(title, " by ") /\ ~Contains(title_lower, "react"))
                 \/ HasArtistAndSong(parse_title_info(title))
                 \/ (AnyIn(music_indicators, title_lower) /\ emoji_count <= 2)
    IN Likely(Lower(title),
              Cardinality({i \in 1..Len(title) : IsNonAscii(CharAt(title, i))}))

is_likely_music_content(title) ==
    LET Shouting(words) ==
            \* caps_count / len(words) > 0.4
            /\ Len(words) > 3
            /\ 10 * Cardinality({i \in 1..Len(words) :
                                    IsUpperStr(words[i]) /\ Len(words[i]) > 2})
                 > 4 * Len(words)
        HasArtistAndSong(info) == Truthy(info.artist) /\ Truthy(info.song_title)
        Likely(title_lower, emoji_count) ==
            IF AnyIn(album_indicators, title_lower) THEN FALSE
            ELSE IF AnyIn(non_music_indicators, title_lower) THEN FALSE
            ELSE IF Shouting(Words(title)) THEN FALSE
            ELSE IF emoji_count > 3 \/ Count(title, "!") > 3 THEN FALSE
            ELSE IF AnyIn(length_indicators, title_lower) THEN FALSE
            ELSE IF HasYear(title_lower)
                    /\ (Contains(title_lower, "mix") \/ Contains(title_lower, "set"))
                 THEN FALSE
            ELSE IF SumCounts(title_lower, artist_indicators, 1) > 2 THEN FALSE
            ELSE \/ Contains(title, " - ")
                 \/ (Contains(title, " by ") /\ ~Contains(title_lower, "react"))
                 \/ HasArtistAndSong(parse_title_info(title))
                 \/ (AnyIn(music_indicators, title_lower) /\ emoji_count <= 2)
    IN Likely(Lower(title),
              Cardinality({i \in 1..Len(title) : IsNonAscii(CharAt(title, i))}))

\* ContentAnalyzer._extract_song_title
analyzer_extract_song_title(title, artist) ==
    IF Contains(title, " - ") /\ Contains(title, artist)
    THEN Split1(title, " - ")[2]
    ELSE None

\* the genres of genre_map one of whose indicators occurs in text
MatchingGenres(text, indicator_map) ==
    {indicator_map[i][1] : i \in {j \in 1..Len(indicator_map) :
                                     AnyIn(indicator_map[j][2], text)}}

get_genre_from_search(artist, song_title) ==
    IF ~Truthy(artist) THEN {}
    ELSE LET In(combined_text) ==
                 MatchingGenres(combined_text, GENRE_INDICATORS)
                 \cup {PLATFORMS_TO_GENRES[i][2] :
                         i \in {j \in 1..Len(PLATFORMS_TO_GENRES) :
                                   Contains(combined_text, PLATFORMS_TO_GENRES[j][1])}}
         IN In(Lower(artist) \o " "
               \o (IF Truthy(song_title) THEN Lower(song_title) ELSE ""))

\* GENRE_MAPPINGS.get(term, term)
MappedGenre(term) ==
    LET At(found) == IF found = {} THEN term ELSE GENRE_MAPPINGS[SetMin(found)][2]
    IN At({i \in 1..Len(GENRE_MAPPINGS) : GENRE_MAPPINGS[i][1] = term})

\* get_enhanced_genres as the list detect_genres returns, like the genres
\* parse_title_info holds
get_enhanced_genres_of_title(title, artist) == Range(detect_genres(title))

\* get_enhanced_genres without `genres.add("trending")`
get_enhanced_genres_no_fallback(title, artist) ==
    LET FromTerms(title_lower) ==
            {MappedGenre(GENRE_TERMS[i]) :
                i \in {j \in 1..Len(GENRE_TERMS) : Contains(title_lower, GENRE_TERMS[j])}}
        OrTrending(from_terms) == from_terms
        Enhanced(genres) ==
            IF genres # {} THEN genres ELSE OrTrending(FromTerms(Lower(title)))
    IN Enhanced(Range(detect_genres(title))
                \cup (IF Truthy(artist)
                      THEN MatchingGenres(Lower(artist), ARTIST_GENRE_MAPPING)
                      ELSE {})
                \cup (IF Truthy(artist)
                      THEN get_genre_from_search(artist,
                               analyzer_extract_song_title(title, artist))
                      ELSE {}))

\* The set whose list(...) get_enhanced_genres returns; the order of that
\* list is the iteration order of a Python set of strings.
get_enhanced_genres(title, artist) ==
    LET FromTerms(title_lower) ==
            {MappedGenre(GENRE_TERMS[i]) :
                i \in {j \in 1..Len(GENRE_TERMS) : Contains(title_lower, GENRE_TERMS[j])}}
        OrTrending(from_terms) == IF from_terms # {} THEN from_terms ELSE {"trending"}
        Enhanced(genres) ==
            IF genres # {} THEN genres ELSE OrTrending(FromTerms(Lower(title)))
    IN Enhanced(Range(detect_genres(title))
                \cup (IF Truthy(artist)
                      THEN MatchingGenres(Lower(artist), ARTIST_GENRE_MAPPING)
                      ELSE {})
                \cup (IF Truthy(artist)
                      THEN get_genre_from_search(artist,
                               analyzer_extract_song_title(title, artist))
                      ELSE {}))

-----------------------------------------------------------------------------
(* bin/cogs/music/radio/recommendation_engine.py: RecommendationEngine     *)

Min(a, b) == IF a < b THEN a ELSE b

RECURSIVE Join(_)
\* ' '.join(words)
Join(words) ==
    IF words = <<>> THEN ""
    ELSE IF Len(words) = 1 THEN words[1]
    ELSE words[1] \o " " \o Join(Tail(words))

\* seq[:n]
Take(seq, n) == SubSeq(seq, 1, Min(n, Len(seq)))

RECURSIVE FlatMap(_, _)
\* the queries a loop `for genre in genres` appends, Op[genre] being the
\* ones of one iteration
FlatMap(Op, genres) ==
    IF genres = <<>> THEN <<>> ELSE Op[Head(genres)] \o FlatMap(Op, Tail(genres))

\* The list primary_search_queries at line 101, before list(set(...)).
\* genres is the list get_enhanced_genres returned, moods the list
\* detect_moods returned.
primary_search_queries(artist, song_title, genres, moods) ==
    LET exclude_term == IF Truthy(song_title) THEN "-\"" \o song_title \o "\"" ELSE ""
        strategy1 ==
            IF Truthy(artist)
            THEN << artist \o " songs official audio " \o exclude_term,
                    artist \o " single official audio " \o exclude_term >>
            ELSE <<>>
        strategy2 ==
            FlatMap([genre \in Range(genres) |->
                        << genre \o " music singles official audio -mix -compilation",
                           genre \o " official release -mix -compilation" >>],
                    Take(genres, 2))
        simple_song == IF Truthy(song_title) THEN Join(Take(Words(song_title), 3)) ELSE ""
        strategy3 ==
            IF genres # <<>> /\ Truthy(song_title) /\ simple_song # ""
            THEN << genres[1] \o " songs like " \o simple_song
                        \o " official audio -mix -compilation" >>
            ELSE <<>>
        strategy4 ==
            FlatMap([genre \in Range(genres) |->
                        << "best " \o genre \o " songs 2024 official audio -mix -compilation -dj",
                           "new " \o genre \o " singles 2024 -mix -compilation -dj" >>
                        \o (IF genre = "hip hop"
                            THEN << "rap singles 2024 official audio -mix -compilation" >>
                            ELSE IF genre = "electronic"
                            THEN << "electronic singles official audio -mix -compilation" >>
                            ELSE IF genre = "rock"
                            THEN << "rock singles official audio -mix -compilation" >>
                            ELSE IF genre = "pop"
                            THEN << "pop singles 2024 official audio -mix -compilation" >>
                            ELSE <<>>)],
                    Take(genres, 2))
        strategy5 ==
            IF Truthy(artist) /\ genres # <<>>
            THEN << genres[1] \o " artists like " \o artist \o " singles official audio -mix",
                    "if you like " \o artist \o " single tracks official audio -mix" >>
            ELSE <<>>
        strategy6 ==
            IF moods # <<>> /\ genres # <<>>
            THEN << moods[1] \o " " \o genres[1] \o " singles official audio -mix -compilation" >>
            ELSE IF moods # <<>>
            THEN << moods[1] \o " singles official audio -mix -compilation" >>
            ELSE <<>>
        primary == strategy1 \o strategy2 \o strategy3 \o strategy4 \o strategy5 \o strategy6
        enough ==
            IF Len(primary) < 3
            THEN (IF Truthy(artist)
                  THEN << "artists similar to " \o artist \o " singles official audio -mix" >>
                  ELSE <<>>)
                 \o (IF genres # <<>>
                     THEN << "new " \o genres[1] \o " singles 2024 -mix -compilation" >>
                     ELSE <<>>)
            ELSE <<>>
    IN primary \o enough

\* The set of which _generate_search_strategies returns a list; the order of
\* list(set(...)) is the iteration order of a Python set of strings.
_generate_search_strategies(artist, song_title, genres, moods) ==
    Range(primary_search_queries(artist, song_title, genres, moods))

\* max_same_artist, the local of find_similar_song
max_same_artist == 3

\* The titles the model runs on.  EngineSeeds are titles find_similar_song
\* is called for, UserSongs what a user plays, Catalog the result dicts a
\* search can return (title, url and webpage_url keys; None for a key the
\* dict lacks).
ReferenceSong == <<"https://youtu.be/one", "Daft Punk - One More Time">>
PlainSong == <<"hello", "Hello">>

UserSongs == {ReferenceSong}

EngineSeeds == {ReferenceSong, PlainSong}

Candidate(title, url, webpage_url) ==
    [title |-> title, url |-> url, webpage_url |-> webpage_url]

\* the reference title in another letter case
LowerCaseReference == Candidate("daft punk - one more time", "https://youtu.be/one-lc", None)
SameArtistWithUrl == Candidate("Daft Punk - Get Lucky", "https://youtu.be/lucky", None)
SameArtistWebpage == Candidate("Daft Punk - Da Funk", None, "https://youtu.be/funk")
OtherArtist == Candidate("Adele - Hello", "https://youtu.be/adele", None)
NotMusic == Candidate("Daft Punk Interview 2013", "https://youtu.be/talk", None)

\* same-artist results without any URL
UrlLess ==
    { Candidate("Daft Punk - Da Funk", None, None),
      Candidate("Daft Punk - Robot Rock", None, None),
      Candidate("Daft Punk - Aerodynamic", None, None),
      Candidate("Daft Punk - Voyager", None, None) }

Catalog ==
    {LowerCaseReference, SameArtistWebpage, OtherArtist, NotMusic} \cup UrlLess

\* a same-artist result without any URL, under the title of SameArtistWebpage
SameArtistUrlLess == Candidate("Daft Punk - Da Funk", None, None)

\* the reference song under a title with another spacing
SameSongRespaced == Candidate("Daft Punk  - One More Time", "https://youtu.be/one-2", None)

\* the catalog of the runs that keep the lists the searches return
SearchCatalog ==
    {OtherArtist, SameArtistWebpage, SameArtistUrlLess, NotMusic, SameSongRespaced}

\* the result dict of a song
AsResult(song) == Candidate(song[2], song[1], None)

\* the smaller catalog of the runs over several radio cycles
RadioCatalog == {AsResult(ReferenceSong), SameArtistWithUrl, OtherArtist}

Titles ==
    {c.title : c \in Catalog \cup RadioCatalog \cup SearchCatalog}
    \cup {s[2] : s \in EngineSeeds \cup UserSongs}

\* What the title processor and the content analyzer of a
\* RecommendationEngine answer, and str.lower, tabulated over the strings of
\* the model; parsed is parse_title_info over Titles.
Tabulated(parsed) ==
    [parse_title_info |-> parsed,
     is_likely_music_content |-> [t \in Titles |-> is_likely_music_content(t)],
     get_enhanced_genres |->
        [t \in Titles |-> get_enhanced_genres(t, parsed[t].artist)],
     detect_moods |-> [t \in Titles |-> detect_moods(t)],
     lower |->
        [s \in (Titles \cup {parsed[t].artist : t \in Titles}
                       \cup {parsed[t].song_title : t \in Titles}) \ {None}
            |-> Lower(s)]]

\* the RecommendationEngine the bot constructs: the operators below take it
\* as self
Engine == Tabulated([t \in Titles |-> parse_title_info(t)])

\* result.get('url') or result.get('webpage_url')
SongUrl(result) == IF Truthy(result.url) THEN result.url ELSE result.webpage_url

\* return song_url, result_title
SongOf(result) == <<SongUrl(result), result.title>>

\* _is_valid_result comparing the titles as they are written
_is_valid_result_exact(self, result_title, current_title, tried_titles) ==
    IF result_title \in tried_titles THEN FALSE
    ELSE IF current_title = result_title THEN FALSE
    ELSE IF ~self.is_likely_music_content[result_title] THEN FALSE
    ELSE TRUE

\* _is_valid_result without `if result_title in tried_titles`
_is_valid_result_ignoring_tried(self, result_title, current_title, tried_titles) ==
    IF self.lower[current_title] = self.lower[result_title] THEN FALSE
    ELSE IF ~self.is_likely_music_content[result_title] THEN FALSE
    ELSE TRUE

_is_valid_result(self, result_title, current_title, tried_titles) ==
    IF result_title \in tried_titles THEN FALSE
    ELSE IF self.lower[current_title] = self.lower[result_title] THEN FALSE
    ELSE IF ~self.is_likely_music_content[result_title] THEN FALSE
    ELSE TRUE

\* _is_same_artist turning same-artist results down from max_same on
_is_same_artist_at_cap(self, current_artist, result_artist, current_song_title, result_song, same_artist_count, max_same, query_idx) ==
    IF ~Truthy(current_artist) \/ ~Truthy(result_artist) THEN "None"
    ELSE IF self.lower[current_artist] # self.lower[result_artist] THEN "None"
    ELSE IF Truthy(current_song_title) /\ Truthy(result_song)
            /\ self.lower[current_song_title] = self.lower[result_song]
    THEN "False"
    ELSE IF same_artist_count >= max_same /\ query_idx > 0 THEN "False"
    ELSE "True"

\* _is_same_artist turning every result of the reference artist down
_is_same_artist_never_allows(self, current_artist, result_artist, current_song_title, result_song, same_artist_count, max_same, query_idx) ==
    IF ~Truthy(current_artist) \/ ~Truthy(result_artist) THEN "None"
    ELSE IF self.lower[current_artist] # self.lower[result_artist] THEN "None"
    ELSE "False"

\* _is_same_artist applying the cap in the first strategy too
_is_same_artist_any_strategy(self, current_artist, result_artist, current_song_title, result_song, same_artist_count, max_same, query_idx) ==
    IF ~Truthy(current_artist) \/ ~Truthy(result_artist) THEN "None"
    ELSE IF self.lower[current_artist] # self.lower[result_artist] THEN "None"
    ELSE IF Truthy(current_song_title) /\ Truthy(result_song)
            /\ self.lower[current_song_title] = self.lower[result_song]
    THEN "False"
    ELSE IF same_artist_count > max_same THEN "False"
    ELSE "True"

\* "True", "False" and "None" stand for the three values of Optional[bool]
_is_same_artist(self, current_artist, result_artist, current_song_title, result_song, same_artist_count, max_same, query_idx) ==
    IF ~Truthy(current_artist) \/ ~Truthy(result_artist) THEN "None"
    ELSE IF self.lower[current_artist] # self.lower[result_artist] THEN "None"
    ELSE IF Truthy(current_song_title) /\ Truthy(result_song)
            /\ self.lower[current_song_title] = self.lower[result_song]
    THEN "False"
    ELSE IF same_artist_count > max_same /\ query_idx > 0 THEN "False"
    ELSE "True"

\* Optional[Tuple[str, str]]: <<>> is None
NoSong == <<>>

RECURSIVE StrategyResults(_, _, _, _, _, _)
\* The loop `for result in results` of _try_search_strategies from position
\* i on: what it returns (ret) and the locals it leaves.  cy holds the
\* arguments of the call and query_idx.
StrategyResults(self, cy, results, i, tried_titles, same_artist_count) ==
    IF i > Len(results)
    THEN [ret |-> NoSong, tried_titles |-> tried_titles,
          same_artist_count |-> same_artist_count]
    ELSE LET Continue(tried, count) ==
                 StrategyResults(self, cy, results, i + 1, tried, count)
             Counted(is_same_artist) ==
                 IF is_same_artist = "True" THEN same_artist_count + 1
                 ELSE same_artist_count
             Judged(result_title, song_url, tried, is_same_artist) ==
                 IF is_same_artist = "False" THEN Continue(tried, same_artist_count)
                 ELSE IF Truthy(song_url)
                 THEN [ret |-> <<song_url, result_title>>, tried_titles |-> tried,
                       same_artist_count |-> Counted(is_same_artist)]
                 ELSE Continue(tried, Counted(is_same_artist))
             Parsed(result, result_info) ==
                 Judged(result.title, SongUrl(result),
                        tried_titles \cup {result.title},
                        _is_same_artist(self, cy.artist, result_info.artist,
                                        cy.song_title, result_info.song_title,
                                        same_artist_count, max_same_artist,
                                        cy.query_idx))
             Body(result) ==
                 IF ~_is_valid_result(self, result.title, cy.title, tried_titles)
                 THEN Continue(tried_titles, same_artist_count)
                 ELSE Parsed(result, self.parse_title_info[result.title])
         IN Body(results[i])

RECURSIVE FallbackResults(_, _, _, _, _)
\* The loop `for result in results` of _try_fallback_strategy.
FallbackResults(self, cy, results, i, tried_titles) ==
    IF i > Len(results) THEN [ret |-> NoSong, tried_titles |-> tried_titles]
    ELSE LET Continue(tried) == FallbackResults(self, cy, results, i + 1, tried)
             Body(result_title, song_url) ==
                 IF ~_is_valid_result(self, result_title, cy.title, tried_titles)
                 THEN Continue(tried_titles)
                 ELSE IF Truthy(song_url)
                 THEN [ret |-> <<song_url, result_title>>,
                       tried_titles |-> tried_titles \cup {result_title}]
                 ELSE Continue(tried_titles \cup {result_title})
         IN Body(results[i].title, SongUrl(results[i]))

-----------------------------------------------------------------------------
(* State                                                                   *)

VARIABLES
    radio_enabled,     \* RadioCore.radio_enabled
    config_file,       \* the file radio_config.json
    recently_played,   \* RadioCore.recently_played
    song_queues,       \* MusicCog.song_queues
    last_played,       \* MusicCog.last_played
    cycle,             \* per guild, the call of add_similar_songs_to_queue in flight
    outcome,           \* per guild, how the last such call ended
    cycles,            \* per guild, the calls of add_similar_songs_to_queue so far
    chain,             \* per guild, the run of same-artist picks
    last_songs,        \* radiocog.RadioCog.last_songs
    title_cache,       \* radiocog.RadioCog._title_cache
    inserted,          \* what was ever inserted into the histories
    fed,               \* per guild, what the searches answered to a watched call
    radio_mode,        \* radiocog.RadioCog.radio_mode
    channel,           \* per guild, the messages in its text channel
    voice,             \* per guild, what its voice client does
    in_radio,          \* per guild, the calls of play_next_song waiting in
                       \* add_similar_songs_to_queue
    last_toggle,       \* the last /radio on|off command and how it ended
    probe,             \* the last call of a title function, or turn of the
                       \* result loop, and what it returned
    title_info_cache   \* TitleProcessor.title_info_cache: the dicts
                       \* parse_title_info has stored, by title

vars == << radio_enabled, config_file, recently_played, song_queues, last_played,
           cycle, outcome, cycles, chain, last_songs, title_cache, inserted, fed,
           radio_mode, channel, voice, in_radio, last_toggle, probe,
           title_info_cache >>

Guilds == {1, 2}

\* no call of add_similar_songs_to_queue yet
NoCalls == [g \in Guilds |-> 0]

\* the calls of add_similar_songs_to_queue so far, of all guilds
Calls == cycles[1] + cycles[2]

\* A Python dict is a function on its keys.
EmptyDict == [k \in {} |-> None]

\* d.get(k, default)
Get(d, k, default) == IF k \in DOMAIN d THEN d[k] ELSE default

\* d[k] = v
Put(d, k, v) == [x \in (DOMAIN d) \cup {k} |-> IF x = k THEN v ELSE d[x]]

RECURSIVE str(_)
\* str(n) of a non-negative int
str(n) ==
    IF n < 10 THEN CharAt(DigitChars, n + 1)
    ELSE str(n \div 10) \o CharAt(DigitChars, (n % 10) + 1)

\* does int(s) succeed (no sign, no blanks: the keys json.dump wrote)
IsDecimal(s) == Len(s) > 0 /\ \A i \in 1..Len(s) : IsDigitChar(CharAt(s, i))

RECURSIVE int(_)
\* int(s) of a decimal string
int(s) ==
    IF Len(s) = 1 THEN IndexIn(s, DigitChars) - 1
    ELSE 10 * int(SubSeq(s, 1, Len(s) - 1)) + IndexIn(CharAt(s, Len(s)), DigitChars) - 1

\* all the orders list(s) can have for a set s
Orders(s) ==
    {order \in [1..Cardinality(s) -> s] :
        \A i, j \in 1..Cardinality(s) : order[i] = order[j] => i = j}

-----------------------------------------------------------------------------
(* bin/cogs/music/radio/radio_core.py: RadioCore                           *)

recently_played_max_size == 10

\* is_radio_enabled with radio on by default
is_radio_enabled_default_on(guild_id) == Get(radio_enabled, guild_id, TRUE)

is_radio_enabled(guild_id) == Get(radio_enabled, guild_id, FALSE)

\* deque(maxlen=maxlen).append(x)
DequeAppend(dq, x, maxlen) ==
    IF maxlen = 0 THEN <<>>
    ELSE IF Len(dq) >= maxlen THEN Append(Tail(dq), x)
    ELSE Append(dq, x)

\* add_to_recently_played keeping one history for all guilds
add_to_recently_played_one_history(guild_id, url, title) ==
    Put(recently_played, 1,
        DequeAppend(Get(recently_played, 1, <<>>), <<url, title>>,
                    recently_played_max_size))

\* the value of RadioCore.recently_played after add_to_recently_played
add_to_recently_played(guild_id, url, title) ==
    Put(recently_played, guild_id,
        DequeAppend(Get(recently_played, guild_id, <<>>), <<url, title>>,
                    recently_played_max_size))

\* the titles of the radio sessions, and calculate_similarity tabulated over
\* them
SessionTitles == {c.title : c \in RadioCatalog} \cup {s[2] : s \in UserSongs}

Similarity ==
    [title1 \in SessionTitles |->
        [title2 \in SessionTitles |-> calculate_similarity(title1, title2)]]

\* RadioCore.is_recently_played
is_recently_played(guild_id, title) ==
    IF guild_id \notin DOMAIN recently_played THEN FALSE
    ELSE LET recent_titles ==
                 [i \in 1..Len(recently_played[guild_id]) |->
                     recently_played[guild_id][i][2]]
         IN IF InSeq(title, recent_titles) THEN TRUE
            ELSE \E i \in 1..Len(recent_titles) :
                    LET info1 == Engine.parse_title_info[title]
                        info2 == Engine.parse_title_info[recent_titles[i]]
                    IN \/ /\ Truthy(info1.song_title) /\ Truthy(info2.song_title)
                          /\ Engine.lower[info1.song_title] = Engine.lower[info2.song_title]
                       \/ FracLess(Frac(8, 10), Similarity[title][recent_titles[i]])

-----------------------------------------------------------------------------
(* bin/services/youtube_service.py: what search_songs can answer           *)

\* most entries one search returns to a single call of find_similar_song
MaxResults == 2

Lists(catalog, n) == UNION {[1..k -> catalog] : k \in 0..n}

\* a reply is the list search_songs returns, or an exception it raises
Replies(catalog, max_results) ==
    {[raised |-> TRUE, results |-> <<>>]}
    \cup {[raised |-> FALSE, results |-> results] : results \in Lists(catalog, max_results)}

-----------------------------------------------------------------------------
(* bin/cogs/music/radio/radio_service.py and recommendation_engine.py:     *)
(* one call of RadioService.add_similar_songs_to_queue, cut at its awaits  *)

\* the locals of find_similar_song and _try_search_strategies while the call
\* waits for a search
IdleCycle ==
    [pc |-> "idle", title |-> "", artist |-> None, song_title |-> None,
     search_queries |-> {}, query_idx |-> 0, tried_titles |-> {},
     same_artist_count |-> 0, attempt |-> 0]

\* how a call ended: the list it returned and the stage that found the song
NoOutcome == [kind |-> "", title |-> "", added_songs |-> <<>>, stage |-> ""]

\* What the searches have answered to a watched call:
\*   strategies_empty   every strategy search so far returned an empty list
\*   raised             some strategy search raised
\*   reply              the last reply handled: "raise", "empty" or "results"
\*   offered            some reply held a candidate that is not the reference
\*                      title, is likely music, has a URL and, in a strategy,
\*                      is not rejected by _is_same_artist
\*   offered_fresh      the same, with a title not yet among tried_titles
\*   same_artist_only   every candidate so far is another song by the
\*                      reference artist
\*   fallback_results   the list the fallback search returned
\*   results            the list the last search returned, where the lists
\*                      are kept
\*   tried_again        some reply held a title that was among tried_titles
\*                      when the reply came (where the lists are kept)
\*   searches           the searches answered so far (where the lists are kept)
NothingFed ==
    [strategies_empty |-> TRUE, raised |-> FALSE, reply |-> "",
     offered |-> FALSE, offered_fresh |-> FALSE, same_artist_only |-> TRUE,
     fallback_results |-> <<>>, results |-> <<>>, tried_again |-> FALSE,
     searches |-> 0]

\* the titles that are not title in any letter case and are likely music
PresentableTitles(self, title) ==
    {t \in Titles : self.lower[t] # self.lower[title] /\ self.is_likely_music_content[t]}

\* result is by the reference artist and another song than the reference
SameArtistOtherSong(self, cy, result) ==
    LET Is(info) ==
            /\ Truthy(cy.artist) /\ Truthy(info.artist)
            /\ self.lower[cy.artist] = self.lower[info.artist]
            /\ ~(Truthy(cy.song_title) /\ Truthy(info.song_title)
                 /\ self.lower[cy.song_title] = self.lower[info.song_title])
    IN Is(self.parse_title_info[result.title])

\* the locals of _try_search_strategies when the loop reaches results[i]
StrategyLocalsAt(self, cy, results, i) ==
    StrategyResults(self, cy, SubSeq(results, 1, i - 1), 1, cy.tried_titles,
                    cy.same_artist_count)

FallbackLocalsAt(self, cy, results, i) ==
    FallbackResults(self, cy, SubSeq(results, 1, i - 1), 1, cy.tried_titles)

\* the same-artist rules turn result down: it is by the reference artist,
\* and is the reference song or comes after the first strategy when more
\* than max_same_artist same-artist results have been let through
SameArtistRulesReject(self, cy, result, same_artist_count) ==
    LET Rejects(info) ==
            /\ Truthy(cy.artist) /\ Truthy(info.artist)
            /\ self.lower[cy.artist] = self.lower[info.artist]
            /\ \/ /\ Truthy(cy.song_title) /\ Truthy(info.song_title)
                  /\ self.lower[cy.song_title] = self.lower[info.song_title]
               \/ same_artist_count > max_same_artist /\ cy.query_idx > 0
    IN Rejects(self.parse_title_info[result.title])

OfferedByStrategy(self, cy, results, fresh) ==
    LET Offers(result, at) ==
            /\ at.ret = NoSong
            /\ result.title \in PresentableTitles(self, cy.title)
            /\ Truthy(SongUrl(result))
            /\ ~SameArtistRulesReject(self, cy, result, at.same_artist_count)
            /\ fresh => result.title \notin at.tried_titles
    IN \E i \in 1..Len(results) :
            Offers(results[i], StrategyLocalsAt(self, cy, results, i))

OfferedByFallback(self, cy, results, fresh) ==
    LET Offers(result, at) ==
            /\ at.ret = NoSong
            /\ result.title \in PresentableTitles(self, cy.title)
            /\ Truthy(SongUrl(result))
            /\ fresh => result.title \notin at.tried_titles
    IN \E i \in 1..Len(results) :
            Offers(results[i], FallbackLocalsAt(self, cy, results, i))

ReplyKind(reply) ==
    IF reply.raised THEN "raise"
    ELSE IF reply.results = <<>> THEN "empty"
    ELSE "results"

\* what a call that was fed `before` has been fed once a strategy search
\* has answered reply
FedByStrategy(self, before, cy, reply, lists) ==
    [strategies_empty |-> before.strategies_empty /\ ReplyKind(reply) = "empty",
     raised |-> before.raised \/ reply.raised,
     reply |-> ReplyKind(reply),
     offered |-> before.offered \/ OfferedByStrategy(self, cy, reply.results, FALSE),
     offered_fresh |-> before.offered_fresh \/ OfferedByStrategy(self, cy, reply.results, TRUE),
     same_artist_only |->
        before.same_artist_only
        /\ \A i \in 1..Len(reply.results) : SameArtistOtherSong(self, cy, reply.results[i]),
     fallback_results |-> <<>>,
     results |-> IF lists THEN reply.results ELSE <<>>,
     tried_again |->
        before.tried_again
        \/ (lists /\ \E i \in 1..Len(reply.results) :
                        reply.results[i].title \in cy.tried_titles),
     searches |-> IF lists THEN before.searches + 1 ELSE 0]

FedByFallback(self, before, cy, reply, lists) ==
    [before EXCEPT
        !.reply = ReplyKind(reply),
        !.offered = @ \/ OfferedByFallback(self, cy, reply.results, FALSE),
        !.offered_fresh = @ \/ OfferedByFallback(self, cy, reply.results, TRUE),
        !.same_artist_only =
            @ /\ \A i \in 1..Len(reply.results) : SameArtistOtherSong(self, cy, reply.results[i]),
        !.fallback_results = reply.results,
        !.results = IF lists THEN reply.results ELSE <<>>,
        !.tried_again =
            @ \/ (lists /\ \E i \in 1..Len(reply.results) :
                            reply.results[i].title \in cy.tried_titles),
        !.searches = IF lists THEN @ + 1 ELSE 0]

\* StrategyIteration without the try/except around the search
StrategyIteration_unguarded(self, cy, reply) ==
    IF reply.raised \/ reply.results = <<>>
    THEN [ret |-> NoSong, tried_titles |-> cy.tried_titles,
          same_artist_count |-> cy.same_artist_count, escaped |-> reply.raised]
    ELSE LET Left(scan) ==
                 [ret |-> scan.ret, tried_titles |-> scan.tried_titles,
                  same_artist_count |-> scan.same_artist_count, escaped |-> FALSE]
         IN Left(StrategyResults(self, cy, reply.results, 1, cy.tried_titles,
                                 cy.same_artist_count))

\* One iteration of `for query_idx, search_query in enumerate(search_queries)`
\* on the reply of search_songs: what the call returns (ret), the locals it
\* leaves, and whether an exception leaves _try_search_strategies (escaped).
StrategyIteration(self, cy, reply) ==
    IF reply.raised \/ reply.results = <<>>
    THEN \* except Exception: continue / if not results: continue
         [ret |-> NoSong, tried_titles |-> cy.tried_titles,
          same_artist_count |-> cy.same_artist_count, escaped |-> FALSE]
    ELSE LET Left(scan) ==
                 [ret |-> scan.ret, tried_titles |-> scan.tried_titles,
                  same_artist_count |-> scan.same_artist_count, escaped |-> FALSE]
         IN Left(StrategyResults(self, cy, reply.results, 1, cy.tried_titles,
                                 cy.same_artist_count))

\* _try_fallback_strategy looking at the first result only
FallbackIteration_first_only(self, cy, reply) ==
    IF reply.raised \/ reply.results = <<>>
    THEN [ret |-> NoSong, tried_titles |-> cy.tried_titles, escaped |-> FALSE]
    ELSE LET Left(scan) ==
                 [ret |-> scan.ret, tried_titles |-> scan.tried_titles, escaped |-> FALSE]
         IN Left(FallbackResults(self, cy, SubSeq(reply.results, 1, 1), 1,
                                 cy.tried_titles))

\* _try_fallback_strategy on the reply of search_songs
FallbackIteration(self, cy, reply) ==
    IF reply.raised \/ reply.results = <<>>
    THEN [ret |-> NoSong, tried_titles |-> cy.tried_titles, escaped |-> FALSE]
    ELSE LET Left(scan) ==
                 [ret |-> scan.ret, tried_titles |-> scan.tried_titles, escaped |-> FALSE]
         IN Left(FallbackResults(self, cy, reply.results, 1, cy.tried_titles))

\* a queue that takes the song twice
setdefault_append_twice(d, k, x) == Put(d, k, Append(Append(Get(d, k, <<>>), x), x))

\* d.setdefault(k, []).append(x)
setdefault_append(d, k, x) == Put(d, k, Append(Get(d, k, <<>>), x))

\* The end of add_similar_songs_to_queue (radio_service.py 74-106): the song
\* found is appended to the guild's queue and returned; `failed` is the
\* outer `except Exception`.
Finish(self, guild_id, cy, similar_song, stage, failed) ==
    LET End(found) ==
            /\ song_queues' =
                 IF found
                 THEN setdefault_append(song_queues, str(guild_id), similar_song)
                 ELSE song_queues
            /\ outcome' = [outcome EXCEPT ![guild_id] =
                 [kind |-> IF failed THEN "error"
                           ELSE IF found THEN "found" ELSE "not_found",
                  title |-> cy.title,
                  added_songs |-> IF found THEN <<similar_song>> ELSE <<>>,
                  stage |-> IF found THEN stage ELSE ""]]
            /\ cycle' = [cycle EXCEPT ![guild_id] = IdleCycle]
            /\ chain' = [chain EXCEPT ![guild_id] =
                 IF ~found THEN @
                 ELSE [title |-> similar_song[2],
                       run |-> IF SameArtistOtherSong(self, cy, [title |-> similar_song[2]])
                               THEN @.run + 1 ELSE 0]]
    IN End(similar_song # NoSong /\ ~failed)

\* a MusicCog whose get_last_played falls back on a song
get_last_played_or_default(guild_id) == Get(last_played, guild_id, ReferenceSong)

\* MusicCog.get_last_played: self.last_played.get(guild_id), None as NoSong
get_last_played(guild_id) == Get(last_played, guild_id, NoSong)

\* find_similar_song from its call to the first search (recommendation_engine.py
\* 323-340): the locals it starts with, for each order list(genres) can have
Started(self, title) ==
    {[IdleCycle EXCEPT
        !.pc = IF search_queries = {} THEN "fallback" ELSE "strategies",
        !.title = title,
        !.artist = self.parse_title_info[title].artist,
        !.song_title = self.parse_title_info[title].song_title,
        !.search_queries = search_queries] :
     search_queries \in
        {_generate_search_strategies(self.parse_title_info[title].artist,
                                     self.parse_title_info[title].song_title,
                                     genres, self.detect_moods[title]) :
         genres \in Orders(self.get_enhanced_genres[title])}}

\* add_similar_songs_to_queue from its call to the first search of
\* find_similar_song; a watched call has the replies it gets recorded in fed
add_similar_songs_to_queue(guild_id, watched) ==
    /\ cycle[guild_id].pc = "idle"
    /\ cycles' = [cycles EXCEPT ![guild_id] = @ + 1]
    /\ IF ~is_radio_enabled(guild_id)
       THEN /\ outcome' = [outcome EXCEPT ![guild_id] =
                              [NoOutcome EXCEPT !.kind = "disabled"]]
            /\ UNCHANGED <<recently_played, inserted, cycle, chain, fed>>
       ELSE IF get_last_played(str(guild_id)) = NoSong
       THEN /\ outcome' = [outcome EXCEPT ![guild_id] =
                              [NoOutcome EXCEPT !.kind = "no_last_played"]]
            /\ UNCHANGED <<recently_played, inserted, cycle, chain, fed>>
       ELSE LET Call(last_url, title) ==
                    /\ recently_played' =
                            add_to_recently_played(guild_id, last_url, title)
                    /\ inserted' = [inserted EXCEPT !.recently_played =
                            Put(@, guild_id,
                                Append(Get(@, guild_id, <<>>), <<last_url, title>>))]
                    /\ \E started \in Started(Engine, title) :
                            cycle' = [cycle EXCEPT ![guild_id] = started]
                    /\ chain' = [chain EXCEPT ![guild_id] =
                            IF @.title = title THEN @ ELSE [title |-> "", run |-> 0]]
                    /\ fed' = IF watched THEN [fed EXCEPT ![guild_id] = NothingFed]
                              ELSE fed
                    /\ UNCHANGED outcome
            IN Call(get_last_played(str(guild_id))[1], get_last_played(str(guild_id))[2])
    /\ UNCHANGED <<radio_enabled, config_file, song_queues, last_played,
                   last_songs, title_cache,
                   radio_mode, channel, voice, in_radio, last_toggle, probe, title_info_cache>>

\* a loop over the strategies that gives up after the first one
AfterStrategy_first_only(cy) == "fallback"

\* where the call waits after a strategy that returned nothing: in the next
\* turn of `for query_idx, search_query in enumerate(search_queries)`
\* (recommendation_engine.py 121), or after the loop in the fallback search
AfterStrategy(cy) ==
    IF cy.query_idx + 1 < Cardinality(cy.search_queries)
    THEN "strategies" ELSE "fallback"

\* _try_search_strategies resumes with the reply to the search of strategy
\* query_idx; a watched call keeps the lists it is answered if lists is set
search_strategy_reply(guild_id, replies, watched, lists) ==
    LET Resume(self, cy, reply, it) ==
            /\ fed' = IF watched
                      THEN [fed EXCEPT ![guild_id] = FedByStrategy(self, @, cy, reply, lists)]
                      ELSE fed
            /\ IF it.escaped
               THEN Finish(self, guild_id, cy, NoSong, "", TRUE)
               ELSE IF it.ret # NoSong
               THEN Finish(self, guild_id, cy, it.ret, "strategy", FALSE)
               ELSE /\ cycle' = [cycle EXCEPT ![guild_id] =
                         [cy EXCEPT
                             !.tried_titles = it.tried_titles,
                             !.same_artist_count = it.same_artist_count,
                             !.query_idx = @ + 1,
                             !.pc = AfterStrategy(cy)]]
                    /\ UNCHANGED <<song_queues, outcome, chain>>
        Answer(self, cy) ==
            \E reply \in replies :
                Resume(self, cy, reply, StrategyIteration(self, cy, reply))
    IN /\ cycle[guild_id].pc = "strategies"
       /\ Answer(Engine, cycle[guild_id])
       /\ UNCHANGED <<radio_enabled, config_file, recently_played, last_played,
                      cycles, last_songs, title_cache, inserted,
                      radio_mode, channel, voice, in_radio, last_toggle, probe, title_info_cache>>

\* _try_fallback_strategy resumes with the reply to the fallback search
search_fallback_reply(guild_id, replies, watched, lists) ==
    LET Resume(self, cy, reply, it) ==
            /\ fed' = IF watched
                      THEN [fed EXCEPT ![guild_id] = FedByFallback(self, @, cy, reply, lists)]
                      ELSE fed
            /\ Finish(self, guild_id, cy, it.ret, "fallback", it.escaped)
        Answer(self, cy) ==
            \E reply \in replies :
                Resume(self, cy, reply, FallbackIteration(self, cy, reply))
    IN /\ cycle[guild_id].pc = "fallback"
       /\ Answer(Engine, cycle[guild_id])
       /\ UNCHANGED <<radio_enabled, config_file, recently_played, last_played,
                      cycles, last_songs, title_cache, inserted,
                      radio_mode, channel, voice, in_radio, last_toggle, probe, title_info_cache>>

-----------------------------------------------------------------------------
(* bin/cogs/music: the queue of MusicCog                                   *)

\* longest queue the users build
MaxQueue == 1

\* /play (commands/music_play_commands.py 66-70): the song goes to the end
\* of the guild's queue
play(guild_id, song) ==
    LET queue == Get(song_queues, str(guild_id), <<>>)
    IN /\ Len(queue) < MaxQueue
       /\ song_queues' = Put(song_queues, str(guild_id), Append(queue, song))
       /\ UNCHANGED <<radio_enabled, config_file, recently_played, last_played, cycle,
                      outcome, cycles, chain, last_songs, title_cache, inserted, fed,
                      radio_mode, channel, voice, in_radio, last_toggle, probe, title_info_cache>>

\* play_next_song (music_cog.py 649-658): the head of the queue becomes the
\* song played last
play_next_song(guild_id) ==
    LET queue == Get(song_queues, guild_id, <<>>)
    IN /\ queue # <<>>
       /\ song_queues' = Put(song_queues, guild_id, Tail(queue))
       /\ last_played' = Put(last_played, guild_id, Head(queue))
       /\ UNCHANGED <<radio_enabled, config_file, recently_played, cycle, outcome,
                      cycles, chain, last_songs, title_cache, inserted, fed,
                      radio_mode, channel, voice, in_radio, last_toggle, probe, title_info_cache>>

-----------------------------------------------------------------------------
(* radio_core.py load_config / save_config, radio_commands.py radio_toggle *)

\* radio_config.json is missing, blank, not JSON, or holds the JSON object
\* {"radio_enabled": {...}}
File(kind, enabled) == [kind |-> kind, radio_enabled |-> enabled]

MissingFile == File("missing", EmptyDict)
BlankFile == File("blank", EmptyDict)
CorruptFile == File("corrupt", EmptyDict)

\* {str(k): v for k, v in self.radio_enabled.items()}
StrKeys(enabled) ==
    [key \in {str(k) : k \in DOMAIN enabled} |->
        enabled[CHOOSE k \in DOMAIN enabled : str(k) = key]]

\* a load_config that reads only the last digit of a key
IntKeys_last_digit(enabled) ==
    [k \in {int(SubSeq(key, Len(key), Len(key))) : key \in DOMAIN enabled} |->
        enabled[CHOOSE key \in DOMAIN enabled : int(SubSeq(key, Len(key), Len(key))) = k]]

\* {int(k): v for k, v in config_data.get('radio_enabled', {}).items()}
IntKeys(enabled) ==
    [k \in {int(key) : key \in DOMAIN enabled} |->
        enabled[CHOOSE key \in DOMAIN enabled : int(key) = k]]

\* The files save_config can leave: the dump of radio_enabled when it is
\* written, or, when open or json.dump fails, the old file, a truncated one
\* or a partial one.
SaveLeaves(saved, enabled, file) ==
    IF saved = "written" THEN {File("json", StrKeys(enabled))}
    ELSE {file, BlankFile, CorruptFile}

save_config(enabled, file) ==
    SaveLeaves("written", enabled, file) \cup SaveLeaves("failed", enabled, file)

\* the value of radio_enabled after load_config
load_config(file) ==
    IF file.kind = "json" /\ \A key \in DOMAIN file.radio_enabled : IsDecimal(key)
    THEN IntKeys(file.radio_enabled)
    ELSE EmptyDict

\* no /radio on|off command yet
NoToggle == [guild_id |-> 0, state |-> "", saved |-> "", raised |-> FALSE]

\* save_config without its try/except: a failed save leaves the command
\* with an exception
save_escapes_unguarded(saved) == saved = "failed"

\* does an exception leave save_config (radio_core.py 64-72: every
\* exception is caught and logged)
save_escapes(saved) == FALSE

\* /radio on|off
radio_toggle(guild_id, state) ==
    /\ radio_enabled' = Put(radio_enabled, guild_id, state = "on")
    /\ \E saved \in {"written", "failed"} :
            /\ config_file' \in SaveLeaves(saved, radio_enabled', config_file)
            /\ last_toggle' = [guild_id |-> guild_id, state |-> state,
                               saved |-> saved, raised |-> save_escapes(saved)]
    /\ UNCHANGED <<recently_played, song_queues, last_played, cycle, outcome, cycles,
                   chain, last_songs, title_cache, inserted, fed,
                   radio_mode, channel, voice, in_radio, probe, title_info_cache>>

-----------------------------------------------------------------------------
(* bin/cogs/music/radiocog.py: the settings of the stand-alone RadioCog    *)

\* RadioCog.is_radio_enabled of radiocog.py
RadioCog_is_radio_enabled(guild_id) == Get(radio_mode, guild_id, FALSE)

\* a /radio command that switches radio on whatever it was
Toggled_always_on(mode, guild_id) == Put(mode, guild_id, TRUE)

\* radio_mode after toggle_radio for guild_id (radiocog.py 390-392)
Toggled(mode, guild_id) == Put(mode, guild_id, ~Get(mode, guild_id, FALSE))

\* /radio of radiocog.py; its answer goes to the interaction, not to the
\* channel
toggle_radio(guild_id) ==
    /\ radio_mode' = Toggled(radio_mode, guild_id)
    /\ UNCHANGED <<radio_enabled, config_file, recently_played, song_queues,
                   last_played, cycle, outcome, cycles, chain, last_songs,
                   title_cache, inserted, fed, channel, voice, in_radio, last_toggle,
                   probe, title_info_cache>>

-----------------------------------------------------------------------------
(* bin/cogs/music/radiocog.py: the histories of the stand-alone RadioCog   *)

max_last_songs == 10
max_title_cache == 15

\* a capped append that drops the new entry instead of the oldest
AppendCapped_drop_newest(list, x, cap) ==
    IF Len(list) + 1 > cap THEN list ELSE Append(list, x)

\* list.append(x), then pop(0) when the list is longer than cap
AppendCapped(list, x, cap) ==
    IF Len(list) + 1 > cap THEN Tail(Append(list, x)) ELSE Append(list, x)

_add_to_recent_history(guild_id, url, title) ==
    IF guild_id = 0
    THEN UNCHANGED <<last_songs, title_cache, inserted>>
    ELSE /\ last_songs' = Put(last_songs, guild_id,
                AppendCapped(Get(last_songs, guild_id, <<>>), url, max_last_songs))
         /\ title_cache' = Put(title_cache, guild_id,
                AppendCapped(Get(title_cache, guild_id, <<>>),
                             [url |-> url, title |-> title], max_title_cache))
         /\ inserted' = [inserted EXCEPT
                !.last_songs = Put(@, guild_id, Append(Get(@, guild_id, <<>>), url)),
                !.title_cache = Put(@, guild_id,
                    Append(Get(@, guild_id, <<>>), [url |-> url, title |-> title]))]

\* the texts RadioCog.add_similar_songs_to_queue shows in the channel
\* (radiocog.py 430, 448, 454, 474, 492), without their emoji
Looking == "Looking for a similar song..."

Retrying(attempt) == "Looking for a similar song... (attempt " \o str(attempt) \o "/3)"

Notice == "Couldn't find any similar songs."

Success == "Found a similar song and added it to the queue!"

\* description=f"Error finding similar songs: {str(e)}"
ErrorText(e) == "Error finding similar songs: " \o e

\* str(e) of what the searches of find_similar_songs can raise
Exceptions ==
    {"HTTP Error 429: Too Many Requests", "Sign in to confirm you're not a bot"}

\* a range of four attempts
max_attempts_four == 3 + 1

\* for attempt in range(max_attempts)
max_attempts == 3

\* what find_similar_songs answers to the last attempt of a call: a list of
\* at most one song (limit=1), or an exception
FindAnswers ==
    {[kind |-> "empty", songs |-> <<>>, text |-> ""]}
    \cup {[kind |-> "found", songs |-> <<SongOf(c)>>, text |-> ""] : c \in RadioCatalog}
    \cup {[kind |-> "raise", songs |-> <<>>, text |-> e] : e \in Exceptions}

\* RadioCog.add_similar_songs_to_queue of radiocog.py (424-496), where
\* find_similar_songs returned an empty list `empties` times and then
\* answered `last`.  A song find_similar_songs accepts goes into the
\* histories (371) and then into the queue (469).
RadioCog_add_similar_songs_to_queue(guild_id, empties, last) ==
    LET Shown(progress) ==
            channel' = [channel EXCEPT ![guild_id] =
                IF last.kind = "raise"
                THEN @ \o <<progress, ErrorText(last.text)>>
                ELSE IF last.kind = "empty" THEN Append(@, Notice)
                ELSE Append(@, Success)]
    IN /\ empties \in 0..(max_attempts - 1)
       /\ last.kind = "empty" => empties = max_attempts - 1
       /\ cycles' = [cycles EXCEPT ![guild_id] = @ + 1]
       /\ Shown(IF empties = 0 THEN Looking ELSE Retrying(empties + 1))
       /\ IF last.kind = "found"
          THEN /\ _add_to_recent_history(guild_id, last.songs[1][1], last.songs[1][2])
               /\ song_queues' = Put(song_queues, str(guild_id),
                        Get(song_queues, str(guild_id), <<>>) \o last.songs)
          ELSE UNCHANGED <<last_songs, title_cache, inserted, song_queues>>
       /\ outcome' = [outcome EXCEPT ![guild_id] =
            [kind |-> IF last.kind = "raise" THEN "error"
                      ELSE IF last.kind = "found" THEN "found" ELSE "not_found",
             title |-> "", added_songs |-> last.songs, stage |-> "radiocog"]]
       /\ UNCHANGED <<radio_enabled, config_file, recently_played, last_played,
                      cycle, chain, fed, radio_mode, voice, in_radio, last_toggle,
                      probe, title_info_cache>>

-----------------------------------------------------------------------------
(* Construction and the specifications                                     *)

\* the partial maps from guilds to booleans
EnabledMaps == UNION {[known -> BOOLEAN] : known \in SUBSET Guilds}

\* what RadioCore.__init__ can find on disk
InitialFiles ==
    {MissingFile, BlankFile, CorruptFile, File("json", [key \in {"guild"} |-> TRUE])}
    \cup {File("json", StrKeys(enabled)) : enabled \in EnabledMaps}

\* RadioCore.__init__ (radio_core.py 27-35) with file on disk: the pairs of
\* radio_enabled and the file it leaves; a missing file is created by
\* save_config
Constructed(file) ==
    {<<load_config(file), left>> :
        left \in IF file.kind = "missing" THEN save_config(EmptyDict, file) ELSE {file}}

NoInsertions ==
    [recently_played |-> EmptyDict, last_songs |-> EmptyDict, title_cache |-> EmptyDict]

\* no title function called yet
NoProbe == [op |-> "", args |-> <<>>, ret |-> None]

\* no voice client, and no call of play_next_song created
NoVoice ==
    [state |-> "disconnected", scheduled |-> 0, stop |-> "none", failed |-> "no"]

\* the histories and the radio calls as the constructors leave them
Quiet ==
    /\ recently_played = EmptyDict
    /\ cycle = [g \in Guilds |-> IdleCycle]
    /\ outcome = [g \in Guilds |-> NoOutcome]
    /\ chain = [g \in Guilds |-> [title |-> "", run |-> 0]]
    /\ last_songs = EmptyDict
    /\ title_cache = EmptyDict
    /\ inserted = NoInsertions
    /\ fed = [g \in Guilds |-> NothingFed]
    /\ radio_mode = EmptyDict
    /\ channel = [g \in Guilds |-> <<>>]
    /\ voice = [g \in Guilds |-> NoVoice]
    /\ in_radio = [g \in Guilds |-> 0]
    /\ last_toggle = NoToggle
    /\ probe = NoProbe
    /\ title_info_cache = EmptyDict

\* the cogs as their constructors leave them
Fresh(file) ==
    /\ \E made \in Constructed(file) :
            radio_enabled = made[1] /\ config_file = made[2]
    /\ song_queues = EmptyDict
    /\ last_played = EmptyDict
    /\ Quiet

Init == cycles = NoCalls /\ \E file \in InitialFiles : Fresh(file)

\* the bot is started again on the file the last run left
restart ==
    /\ \E made \in Constructed(config_file) :
            radio_enabled' = made[1] /\ config_file' = made[2]
    /\ recently_played' = EmptyDict
    /\ song_queues' = EmptyDict
    /\ last_played' = EmptyDict
    /\ cycle' = [g \in Guilds |-> IdleCycle]
    /\ outcome' = [g \in Guilds |-> NoOutcome]
    /\ chain' = [g \in Guilds |-> [title |-> "", run |-> 0]]
    /\ last_songs' = EmptyDict
    /\ title_cache' = EmptyDict
    /\ inserted' = NoInsertions
    /\ fed' = [g \in Guilds |-> NothingFed]
    /\ radio_mode' = EmptyDict
    /\ channel' = [g \in Guilds |-> <<>>]
    /\ voice' = [g \in Guilds |-> NoVoice]
    /\ in_radio' = [g \in Guilds |-> 0]
    /\ last_toggle' = NoToggle
    /\ probe' = NoProbe
    /\ title_info_cache' = EmptyDict
    /\ UNCHANGED cycles

\* calls of add_similar_songs_to_queue in one run of the whole bot
MaxCalls == 1

\* most entries one search returns in the runs over several cycles
RadioMaxResults == 1

RadioReplies == Replies(RadioCatalog, RadioMaxResults)

Next ==
    \E guild_id \in Guilds :
        \/ \E state \in {"on", "off"} : radio_toggle(guild_id, state)
        \/ \E song \in UserSongs : play(guild_id, song)
        \/ play_next_song(str(guild_id))
        \/ Calls < MaxCalls /\ add_similar_songs_to_queue(guild_id, FALSE)
        \/ search_strategy_reply(guild_id, RadioReplies, FALSE, FALSE)
        \/ search_fallback_reply(guild_id, RadioReplies, FALSE, FALSE)

Spec == Init /\ [][Next]_vars

EngineGuilds == {1}

\* One call of add_similar_songs_to_queue for a guild that has radio on and
\* has played seed.
EngineReplies == Replies(Catalog, MaxResults)

InitEngine ==
    \E guild_id \in EngineGuilds, seed \in EngineSeeds :
        /\ cycles = NoCalls
        /\ radio_enabled = Put(EmptyDict, guild_id, TRUE)
        /\ config_file = File("json", StrKeys(radio_enabled))
        /\ song_queues = Put(EmptyDict, str(guild_id), <<>>)
        /\ last_played = Put(EmptyDict, str(guild_id), seed)
        /\ Quiet

NextEngine ==
    \E guild_id \in EngineGuilds :
        \/ Calls = 0 /\ add_similar_songs_to_queue(guild_id, TRUE)
        \/ search_strategy_reply(guild_id, EngineReplies, TRUE, FALSE)
        \/ search_fallback_reply(guild_id, EngineReplies, TRUE, FALSE)

SpecEngine == InitEngine /\ [][NextEngine]_vars

SearchReplies == Replies(SearchCatalog, MaxResults)

\* One call of add_similar_songs_to_queue whose searches answer from
\* SearchCatalog; the lists they return are kept.
NextSearch ==
    \E guild_id \in EngineGuilds :
        \/ Calls = 0 /\ add_similar_songs_to_queue(guild_id, TRUE)
        \/ search_strategy_reply(guild_id, SearchReplies, TRUE, TRUE)
        \/ search_fallback_reply(guild_id, SearchReplies, TRUE, TRUE)

SpecSearch == InitEngine /\ [][NextSearch]_vars

\* a last played song whose title is None
TitlelessSong == <<"https://youtu.be/untitled", None>>

FailureSeeds == {ReferenceSong, TitlelessSong}

\* add_similar_songs_to_queue without its outer try: the exception leaves
\* the call
ExceptReturn_reraising(title) == [NoOutcome EXCEPT !.kind = "raised", !.title = title]

\* the outer `except Exception` of add_similar_songs_to_queue
\* (radio_service.py 104-106): the error is logged and [] returned
ExceptReturn(title) == [NoOutcome EXCEPT !.kind = "error", !.title = title]

\* add_similar_songs_to_queue (radio_service.py 45-72, 104-106) when
\* find_similar_song raises: the last played title is None, and the
\* metadata extraction (recommendation_engine.py 323-327) calls
\* title.lower() in get_enhanced_genres (content_analyzer.py 235)
find_similar_song_raises(guild_id) ==
    /\ cycle[guild_id].pc = "idle"
    /\ is_radio_enabled(guild_id)
    /\ get_last_played(str(guild_id)) # NoSong
    /\ LET Call(last_url, title) ==
               /\ title = None
               /\ recently_played' = add_to_recently_played(guild_id, last_url, title)
               /\ inserted' = [inserted EXCEPT !.recently_played =
                       Put(@, guild_id,
                           Append(Get(@, guild_id, <<>>), <<last_url, title>>))]
               /\ outcome' = [outcome EXCEPT ![guild_id] = ExceptReturn(title)]
       IN Call(get_last_played(str(guild_id))[1], get_last_played(str(guild_id))[2])
    /\ cycles' = [cycles EXCEPT ![guild_id] = @ + 1]
    /\ UNCHANGED <<radio_enabled, config_file, song_queues, last_played, cycle,
                   chain, last_songs, title_cache, fed, radio_mode, channel,
                   voice, in_radio, last_toggle, probe, title_info_cache>>

\* The guild has radio on, a queue that ran dry and a last played song with
\* or without a title.
InitFailure ==
    \E guild_id \in EngineGuilds, seed \in FailureSeeds :
        /\ cycles = NoCalls
        /\ radio_enabled = Put(EmptyDict, guild_id, TRUE)
        /\ config_file = File("json", StrKeys(radio_enabled))
        /\ song_queues = Put(EmptyDict, str(guild_id), <<>>)
        /\ last_played = Put(EmptyDict, str(guild_id), seed)
        /\ Quiet

\* One call of add_similar_songs_to_queue, in which find_similar_song
\* raises or searches.
NextFailure ==
    \E guild_id \in EngineGuilds :
        \/ /\ Calls = 0
           /\ get_last_played(str(guild_id))[2] # None
           /\ add_similar_songs_to_queue(guild_id, TRUE)
        \/ Calls = 0 /\ find_similar_song_raises(guild_id)
        \/ search_strategy_reply(guild_id, SearchReplies, TRUE, TRUE)
        \/ search_fallback_reply(guild_id, SearchReplies, TRUE, TRUE)

SpecFailure == InitFailure /\ [][NextFailure]_vars

\* the values of the locals same_artist_count and query_idx that the turns
\* of the result loop are taken with
MaxSameArtistCount == 5
MaxQueryIdx == 2

\* the results the turns of the result loop are taken with
TurnResults ==
    {SameArtistWebpage, SameArtistUrlLess, SameArtistWithUrl, OtherArtist,
     NotMusic, SameSongRespaced, LowerCaseReference}

\* One turn of `for result in results` in _try_search_strategies
\* (recommendation_engine.py 128-173) for the last played title of
\* guild_id, with the locals the turn starts with: tried says whether the
\* title of result is among tried_titles.  The turn is kept with the answer
\* of _is_same_artist, if it was called, and the locals it leaves.
strategy_turn(self, guild_id, result, tried, same_artist_count, query_idx) ==
    LET Turn(title, song_info, tried_titles) ==
            LET With(cy, result_info) ==
                    probe' =
                      [op |-> "_try_search_strategies",
                       args |-> <<title, result, tried, same_artist_count, query_idx>>,
                       ret |-> [is_same_artist |->
                                  IF _is_valid_result(self, result.title, title, tried_titles)
                                  THEN _is_same_artist(self, cy.artist, result_info.artist,
                                                       cy.song_title, result_info.song_title,
                                                       same_artist_count, max_same_artist,
                                                       query_idx)
                                  ELSE "",
                                after |-> StrategyResults(self, cy, <<result>>, 1,
                                                          tried_titles, same_artist_count)]]
            IN With([IdleCycle EXCEPT !.pc = "strategies", !.title = title,
                                      !.artist = song_info.artist,
                                      !.song_title = song_info.song_title,
                                      !.query_idx = query_idx,
                                      !.tried_titles = tried_titles,
                                      !.same_artist_count = same_artist_count],
                    self.parse_title_info[result.title])
    IN /\ probe.op = NoProbe.op
       /\ get_last_played(str(guild_id)) # NoSong
       /\ Turn(get_last_played(str(guild_id))[2],
               self.parse_title_info[get_last_played(str(guild_id))[2]],
               IF tried THEN {result.title} ELSE {})
       /\ UNCHANGED <<radio_enabled, config_file, recently_played, song_queues,
                      last_played, cycle, outcome, cycles, chain, last_songs,
                      title_cache, inserted, fed, radio_mode, channel, voice,
                      in_radio, last_toggle, title_info_cache>>

NextTurn ==
    \E guild_id \in EngineGuilds, result \in TurnResults, tried \in BOOLEAN,
       same_artist_count \in 0..MaxSameArtistCount, query_idx \in 0..MaxQueryIdx :
        strategy_turn(Engine, guild_id, result, tried, same_artist_count, query_idx)

SpecTurn == InitEngine /\ [][NextTurn]_vars

\* radio cycles in one session
MaxCycles == 4

SessionGuilds == {1}

\* A radio session: the guild has radio on and has played seed; again and
\* again the queue runs dry, a cycle picks a song and the song is played.
InitSession ==
    \E guild_id \in SessionGuilds, seed \in UserSongs :
        /\ cycles = NoCalls
        /\ radio_enabled = Put(EmptyDict, guild_id, TRUE)
        /\ config_file = File("json", StrKeys(radio_enabled))
        /\ song_queues = Put(EmptyDict, str(guild_id), <<>>)
        /\ last_played = Put(EmptyDict, str(guild_id), seed)
        /\ Quiet

NextSession ==
    \E guild_id \in SessionGuilds :
        \/ Calls < MaxCycles /\ add_similar_songs_to_queue(guild_id, FALSE)
        \/ search_strategy_reply(guild_id, RadioReplies, FALSE, FALSE)
        \/ search_fallback_reply(guild_id, RadioReplies, FALSE, FALSE)
        \/ play_next_song(str(guild_id))

SpecSession == InitSession /\ [][NextSession]_vars

\* the guilds /radio is used in
ConfigGuilds == Guilds \cup {12}

\* the configuration alone: /radio and restarts
NextConfig ==
    \/ \E guild_id \in ConfigGuilds, state \in {"on", "off"} :
            radio_toggle(guild_id, state)
    \/ restart

SpecConfig == Init /\ [][NextConfig]_vars

\* insertions into the histories in one run
MaxInserts == 16

HistoryGuilds == {1}

HistorySongs == {ReferenceSong, SongOf(SameArtistWithUrl)}

\* RadioCore.add_to_recently_played called on its own
record_recently_played(guild_id, song) ==
    /\ recently_played' = add_to_recently_played(guild_id, song[1], song[2])
    /\ inserted' = [inserted EXCEPT !.recently_played =
            Put(@, guild_id, Append(Get(@, guild_id, <<>>), song))]
    /\ UNCHANGED <<radio_enabled, config_file, song_queues, last_played, cycle,
                   outcome, cycles, chain, last_songs, title_cache, fed,
                   radio_mode, channel, voice, in_radio, last_toggle, probe, title_info_cache>>

\* RadioCog._add_to_recent_history called on its own
record_recent_history(guild_id, song) ==
    /\ _add_to_recent_history(guild_id, song[1], song[2])
    /\ UNCHANGED <<radio_enabled, config_file, recently_played, song_queues,
                   last_played, cycle, outcome, cycles, chain, fed,
                   radio_mode, channel, voice, in_radio, last_toggle, probe, title_info_cache>>

\* how many insertions the histories of guild_id have seen
Insertions(guild_id) ==
    Len(Get(inserted.recently_played, guild_id, <<>>))
    + Len(Get(inserted.last_songs, guild_id, <<>>))

\* A run inserts into the history of one implementation: a bot loads either
\* the radio package or radiocog.py.
NextHistory ==
    \E guild_id \in HistoryGuilds, song \in HistorySongs :
        /\ Insertions(guild_id) < MaxInserts
        /\ \/ last_songs = EmptyDict /\ record_recently_played(guild_id, song)
           \/ recently_played = EmptyDict /\ record_recent_history(guild_id, song)

InitHistory == cycles = NoCalls /\ Fresh(File("json", EmptyDict))

SpecHistory == InitHistory /\ [][NextHistory]_vars

\* most songs a run records before it asks whether a title was recently
\* played
MaxRecent == 3

RecentSongs == {SongOf(c) : c \in RadioCatalog}

\* find_similar_song is handed RadioCore.is_recently_played
\* (radio_service.py 64-72); one call of it on a title
check_recently_played(guild_id, title) ==
    /\ probe.op = NoProbe.op
    /\ probe' = [op |-> "is_recently_played", args |-> <<guild_id, title>>,
                 ret |-> is_recently_played(guild_id, title)]
    /\ UNCHANGED <<radio_enabled, config_file, recently_played, song_queues,
                   last_played, cycle, outcome, cycles, chain, last_songs,
                   title_cache, inserted, fed, radio_mode, channel, voice,
                   in_radio, last_toggle, title_info_cache>>

\* Songs are recorded in the history of a guild, and then a title is looked
\* up in it.
NextRecent ==
    \E guild_id \in HistoryGuilds :
        \/ \E song \in RecentSongs :
              /\ probe.op = NoProbe.op
              /\ Insertions(guild_id) < MaxRecent
              /\ record_recently_played(guild_id, song)
        \/ \E title \in SessionTitles : check_recently_played(guild_id, title)

SpecRecent == InitHistory /\ [][NextRecent]_vars

\* calls of add_similar_songs_to_queue per guild where two guilds use radio
MaxCallsPerGuild == 1

\* Two guilds that have played a song use /radio and run their radio
\* cycles side by side.
InitGuilds ==
    \E seeds \in [Guilds -> EngineSeeds] :
        /\ cycles = NoCalls
        /\ radio_enabled = [g \in Guilds |-> TRUE]
        /\ config_file = File("json", StrKeys(radio_enabled))
        /\ song_queues = EmptyDict
        /\ last_played = [k \in {str(g) : g \in Guilds} |->
                            seeds[CHOOSE g \in Guilds : str(g) = k]]
        /\ Quiet

NextGuilds ==
    \E guild_id \in Guilds :
        \/ \E state \in {"on", "off"} : radio_toggle(guild_id, state)
        \/ /\ cycles[guild_id] < MaxCallsPerGuild
           /\ add_similar_songs_to_queue(guild_id, FALSE)
        \/ search_strategy_reply(guild_id, RadioReplies, FALSE, FALSE)
        \/ search_fallback_reply(guild_id, RadioReplies, FALSE, FALSE)

SpecGuilds == InitGuilds /\ [][NextGuilds]_vars

\* calls of RadioCog.add_similar_songs_to_queue in one run
MaxRadioCogCalls == 2

\* The bot with the RadioCog of radiocog.py: /radio, and the calls
\* play_next_song makes when the queue is empty and radio is on.
NextRadioCog ==
    \E guild_id \in Guilds :
        \/ toggle_radio(guild_id)
        \/ /\ Calls < MaxRadioCogCalls
           /\ RadioCog_is_radio_enabled(guild_id)
           /\ \E empties \in 0..(max_attempts - 1), last \in FindAnswers :
                    RadioCog_add_similar_songs_to_queue(guild_id, empties, last)

SpecRadioCog == InitHistory /\ [][NextRadioCog]_vars

-----------------------------------------------------------------------------
(* bin/cogs/music: playback, and who calls play_next_song                  *)

\* calls of play_next_song that wait in add_similar_songs_to_queue at once
MaxInFlight == 2

\* calls of play_next_song created as tasks and not yet started
MaxScheduled == 2

\* longest queue the users build with /play while a song plays
MaxWaiting == 2

\* what the users ask /play for
PlaybackSongs == EngineSeeds

\* what add_similar_songs_to_queue returns to play_next_song: the songs it
\* appended to the queue
SimilarSongs == {<<>>, <<SongOf(OtherArtist)>>}

\* a play_next_song that gives up after a track that failed
Retried_never(scheduled, queue) == scheduled

\* `if queue: asyncio.create_task(self.play_next_song(guild_id, channel))`
\* (music_cog.py 693-694, 715-716, 733-734): the calls of play_next_song
\* created and not yet started, after a track has failed
Retried(scheduled, queue) == IF queue # <<>> THEN scheduled + 1 ELSE scheduled

\* play_next_song from the pop of the queue on (music_cog.py 648-734), for a
\* voice client v: with an empty queue it returns; else the head is popped
\* and remembered, and is played if a playable URL is found and the voice
\* client is connected and plays nothing (voice_client.play raises if not);
\* if it is not played, another play_next_song is created as a task when
\* songs are left.  The field failed of the voice record tells whether the
\* track popped last failed, and whether songs were left then ("more") or
\* not ("last").
PlayHead(guild_id, queues, v, playable) ==
    LET queue == Get(queues, str(guild_id), <<>>)
    IN IF queue = <<>>
       THEN /\ song_queues' = queues
            /\ voice' = [voice EXCEPT ![guild_id] = v]
            /\ UNCHANGED last_played
       ELSE /\ song_queues' = Put(queues, str(guild_id), Tail(queue))
            /\ last_played' = Put(last_played, str(guild_id), Head(queue))
            /\ IF playable /\ v.state = "silent"
               THEN voice' = [voice EXCEPT ![guild_id] =
                        [v EXCEPT !.state = "playing", !.failed = "no"]]
               ELSE /\ Tail(queue) # <<>> => v.scheduled < MaxScheduled
                    /\ voice' = [voice EXCEPT ![guild_id] =
                            [v EXCEPT !.scheduled = Retried(@, Tail(queue)),
                                      !.failed = IF Tail(queue) # <<>>
                                                 THEN "more" ELSE "last"]]

\* play_next_song from its call to its first wait (music_cog.py 577-622):
\* without a voice client it returns; with an empty queue, radio on and a
\* song played last it calls add_similar_songs_to_queue and waits there;
\* with an empty queue otherwise it disconnects (631-646); else PlayHead.
\* Nothing in it looks whether another call is already waiting.
PlayNextSong(guild_id, queues, v, playable) ==
    LET queue == Get(queues, str(guild_id), <<>>)
    IN IF v.state = "disconnected"
       THEN /\ song_queues' = queues
            /\ voice' = [voice EXCEPT ![guild_id] = v]
            /\ UNCHANGED <<last_played, in_radio>>
       ELSE IF queue # <<>>
       THEN PlayHead(guild_id, queues, v, playable) /\ UNCHANGED in_radio
       ELSE IF is_radio_enabled(guild_id) /\ get_last_played(str(guild_id)) # NoSong
       THEN /\ in_radio[guild_id] < MaxInFlight
            /\ in_radio' = [in_radio EXCEPT ![guild_id] = @ + 1]
            /\ song_queues' = queues
            /\ voice' = [voice EXCEPT ![guild_id] = v]
            /\ UNCHANGED last_played
       ELSE /\ song_queues' = queues
            /\ voice' = [voice EXCEPT ![guild_id] = [v EXCEPT !.state = "disconnected"]]
            /\ UNCHANGED <<last_played, in_radio>>

\* Where /stop of a guild is, in the field stop of its voice record: "none",
\* "stopping" from its start to its disconnect, "stopped" once it has
\* completed; "interrupted" when a user has enqueued a song since its start.
\* A user enqueues:
Enqueued(stop) ==
    IF stop = "stopping" THEN "interrupted"
    ELSE IF stop = "stopped" THEN "none" ELSE stop

\* /play (commands/music_play_commands.py 32-113): the bot joins the voice
\* channel, the song goes to the end of the guild's queue, and when nothing
\* is playing play_next_song is called
play_command(guild_id, song, playable) ==
    LET queue == Get(song_queues, str(guild_id), <<>>)
        Joined(v) ==
            [v EXCEPT !.state = IF @ = "disconnected" THEN "silent" ELSE @,
                      !.stop = Enqueued(@)]
        Queued(queues, v) ==
            IF v.state = "playing"
            THEN /\ song_queues' = queues
                 /\ UNCHANGED <<last_played, voice, in_radio>>
            ELSE PlayNextSong(guild_id, queues, v, playable)
    IN /\ Len(queue) < MaxWaiting
       /\ Queued(Put(song_queues, str(guild_id), Append(queue, song)),
                 Joined(voice[guild_id]))
       /\ UNCHANGED <<radio_enabled, config_file, recently_played, cycle, outcome,
                      cycles, chain, last_songs, title_cache, inserted, fed,
                      radio_mode, channel, last_toggle, probe, title_info_cache>>

\* the callback of create_after_callback (music_cog.py 234-248): the song
\* has ended, and a call of play_next_song is handed to the event loop
after_callback(guild_id) ==
    /\ voice[guild_id].state = "playing"
    /\ voice[guild_id].scheduled < MaxScheduled
    /\ voice' = [voice EXCEPT ![guild_id] =
                    [@ EXCEPT !.state = "silent", !.scheduled = @ + 1]]
    /\ UNCHANGED <<radio_enabled, config_file, recently_played, song_queues,
                   last_played, cycle, outcome, cycles, chain, last_songs,
                   title_cache, inserted, fed, radio_mode, channel, in_radio,
                   last_toggle, probe, title_info_cache>>

\* /skip (commands/music_elevated_commands.py 282-321): voice_client.stop()
\* ends the song, which runs its after callback
skip(guild_id) ==
    /\ voice[guild_id].state = "playing"
    /\ voice[guild_id].scheduled < MaxScheduled
    /\ voice' = [voice EXCEPT ![guild_id] =
                    [@ EXCEPT !.state = "silent", !.scheduled = @ + 1]]
    /\ UNCHANGED <<radio_enabled, config_file, recently_played, song_queues,
                   last_played, cycle, outcome, cycles, chain, last_songs,
                   title_cache, inserted, fed, radio_mode, channel, in_radio,
                   last_toggle, probe, title_info_cache>>

\* /stop up to its first wait (commands/music_elevated_commands.py 145-173):
\* on a connected guild the queue is cleared and voice_client.stop() ends the
\* song that plays, which runs its after callback
stop(guild_id) ==
    LET Stopped(v) ==
            IF v.state = "playing"
            THEN /\ v.scheduled < MaxScheduled
                 /\ voice' = [voice EXCEPT ![guild_id] =
                        [v EXCEPT !.state = "silent", !.scheduled = @ + 1,
                                  !.stop = "stopping"]]
            ELSE voice' = [voice EXCEPT ![guild_id] = [v EXCEPT !.stop = "stopping"]]
    IN /\ voice[guild_id].state # "disconnected"
       /\ voice[guild_id].stop \in {"none", "stopped"}
       /\ song_queues' = IF str(guild_id) \in DOMAIN song_queues
                         THEN Put(song_queues, str(guild_id), <<>>)
                         ELSE song_queues
       /\ Stopped(voice[guild_id])
       /\ UNCHANGED <<radio_enabled, config_file, recently_played, last_played,
                      cycle, outcome, cycles, chain, last_songs, title_cache,
                      inserted, fed, radio_mode, channel, in_radio, last_toggle,
                      probe, title_info_cache>>

\* /stop from `await voice_client.disconnect()` on (176-188); a song that a
\* user started meanwhile ends and runs its after callback
stop_disconnects(guild_id) ==
    /\ voice[guild_id].stop \in {"stopping", "interrupted"}
    /\ voice[guild_id].state = "playing" => voice[guild_id].scheduled < MaxScheduled
    /\ voice' = [voice EXCEPT ![guild_id] =
            [@ EXCEPT !.state = "disconnected",
                      !.scheduled = IF voice[guild_id].state = "playing"
                                    THEN @ + 1 ELSE @,
                      !.stop = IF @ = "stopping" THEN "stopped" ELSE "none"]]
    /\ UNCHANGED <<radio_enabled, config_file, recently_played, song_queues,
                   last_played, cycle, outcome, cycles, chain, last_songs,
                   title_cache, inserted, fed, radio_mode, channel, in_radio,
                   last_toggle, probe, title_info_cache>>

\* the event loop starts a call of play_next_song that the after callback
\* (music_cog.py 245) or a failed playback (694, 716, 734) created
start_play_next_song(guild_id, playable) ==
    LET Taken(v) == [v EXCEPT !.scheduled = @ - 1]
    IN /\ voice[guild_id].scheduled > 0
       /\ PlayNextSong(guild_id, song_queues, Taken(voice[guild_id]), playable)
       /\ UNCHANGED <<radio_enabled, config_file, recently_played, cycle, outcome,
                      cycles, chain, last_songs, title_cache, inserted, fed,
                      radio_mode, channel, last_toggle, probe, title_info_cache>>

\* `if voice_client.is_connected()` in place of line 631
ShouldDisconnect_ignoring_queue(queue, v) == v.state # "disconnected"

\* `if not queue and voice_client.is_connected()` (music_cog.py 631)
ShouldDisconnect(queue, v) == queue = <<>> /\ v.state # "disconnected"

\* add_similar_songs_to_queue returns to a waiting play_next_song
\* (music_cog.py 622-658) the songs it appended to the queue: with a queue
\* still empty the bot disconnects, else play_next_song goes on to PlayHead
radio_returns(guild_id, similar_songs, playable) ==
    LET Back(queues, v) ==
            IF ShouldDisconnect(Get(queues, str(guild_id), <<>>), v)
            THEN /\ song_queues' = queues
                 /\ voice' = [voice EXCEPT ![guild_id] = [v EXCEPT !.state = "disconnected"]]
                 /\ UNCHANGED last_played
            ELSE PlayHead(guild_id, queues, v, playable)
    IN /\ in_radio[guild_id] > 0
       /\ in_radio' = [in_radio EXCEPT ![guild_id] = @ - 1]
       /\ Back(Put(song_queues, str(guild_id),
                   Get(song_queues, str(guild_id), <<>>) \o similar_songs),
               voice[guild_id])
       /\ outcome' = [outcome EXCEPT ![guild_id] =
             [kind |-> IF similar_songs # <<>> THEN "found" ELSE "not_found",
              title |-> get_last_played(str(guild_id))[2],
              added_songs |-> similar_songs,
              stage |-> "play_next_song"]]
       /\ UNCHANGED <<radio_enabled, config_file, recently_played, cycle,
                      cycles, chain, last_songs, title_cache, inserted, fed,
                      radio_mode, channel, last_toggle, probe, title_info_cache>>

\* the guild whose users use /play and /skip
PlaybackGuilds == {1}

\* With radio on or off, the users of a guild use /play and /skip, songs
\* end, and the radio answers.
InitPlayback ==
    /\ cycles = NoCalls
    /\ radio_enabled \in [Guilds -> BOOLEAN]
    /\ config_file = File("json", StrKeys(radio_enabled))
    /\ song_queues = EmptyDict
    /\ last_played = EmptyDict
    /\ Quiet

NextPlayback ==
    \E guild_id \in PlaybackGuilds, playable \in BOOLEAN :
        \/ \E song \in PlaybackSongs : play_command(guild_id, song, playable)
        \/ after_callback(guild_id)
        \/ skip(guild_id)
        \/ start_play_next_song(guild_id, playable)
        \/ \E similar_songs \in SimilarSongs :
                radio_returns(guild_id, similar_songs, playable)

SpecPlayback == InitPlayback /\ [][NextPlayback]_vars

\* The event loop runs the calls of play_next_song that were created, and
\* the searches of the radio answer.
SpecProgress ==
    /\ InitPlayback
    /\ [][NextPlayback]_vars
    /\ \A guild_id \in PlaybackGuilds :
        /\ WF_vars(\E playable \in BOOLEAN : start_play_next_song(guild_id, playable))
        /\ WF_vars(\E similar_songs \in SimilarSongs, playable \in BOOLEAN :
                    radio_returns(guild_id, similar_songs, playable))

\* The users use /stop as well.
NextStop ==
    \/ NextPlayback
    \/ \E guild_id \in PlaybackGuilds : stop(guild_id) \/ stop_disconnects(guild_id)

SpecStop == InitPlayback /\ [][NextStop]_vars

-----------------------------------------------------------------------------
(* Calls of the title functions                                            *)

\* titles the functions are called on: with and without an artist, with
\* the same song by two artists, with the same fingerprint under two
\* spellings, with album and non-music keywords, and the empty title
AnalysisTitles ==
    {"", "tide", "diet", "Tide - Echo", "Diet - Echo", "A B - Go", "AB - Go",
     "cat video", "lofi beats", "Queen - Greatest Hits",
     "FULL ALBUM MIX 2024 (3 HOURS)", "Daft Punk - Interview (Official Audio)",
     "Drake - Reaction feat. Future", "Daft Punk - One More Time"}

\* the artists get_enhanced_genres is called with; None is the default
AnalysisArtists == {None, "Drake", "Diet", "Monstercat"}

\* RadioCore.is_recently_played (radio_core.py 130) and its like call
\* calculate_similarity on two titles
compare_titles(title1, title2) ==
    /\ probe.op = NoProbe.op
    /\ probe' = [op |-> "calculate_similarity", args |-> <<title1, title2>>,
                 ret |-> calculate_similarity(title1, title2)]
    /\ UNCHANGED <<radio_enabled, config_file, recently_played, song_queues,
                   last_played, cycle, outcome, cycles, chain, last_songs,
                   title_cache, inserted, fed, radio_mode, channel, voice,
                   in_radio, last_toggle, title_info_cache>>

\* _is_valid_result (recommendation_engine.py 243) calls
\* is_likely_music_content on a title
classify_title(title) ==
    /\ probe.op = NoProbe.op
    /\ probe' = [op |-> "is_likely_music_content", args |-> <<title>>,
                 ret |-> is_likely_music_content(title)]
    /\ UNCHANGED <<radio_enabled, config_file, recently_played, song_queues,
                   last_played, cycle, outcome, cycles, chain, last_songs,
                   title_cache, inserted, fed, radio_mode, channel, voice,
                   in_radio, last_toggle, title_info_cache>>

\* find_similar_song (recommendation_engine.py 329) calls
\* get_enhanced_genres on a title and an artist
enhance_genres(title, artist) ==
    /\ probe.op = NoProbe.op
    /\ probe' = [op |-> "get_enhanced_genres", args |-> <<title, artist>>,
                 ret |-> get_enhanced_genres(title, artist)]
    /\ UNCHANGED <<radio_enabled, config_file, recently_played, song_queues,
                   last_played, cycle, outcome, cycles, chain, last_songs,
                   title_cache, inserted, fed, radio_mode, channel, voice,
                   in_radio, last_toggle, title_info_cache>>

\* One call in a run: what a call returns does not depend on the calls
\* before it (parse_title_info caches what it computes from the title alone).
NextAnalysis ==
    \/ \E title1 \in AnalysisTitles, title2 \in AnalysisTitles :
            compare_titles(title1, title2)
    \/ \E title \in AnalysisTitles : classify_title(title)
    \/ \E title \in AnalysisTitles, artist \in AnalysisArtists :
            enhance_genres(title, artist)

SpecAnalysis == InitHistory /\ [][NextAnalysis]_vars

\* titles that name a top-level genre of genre_map as a whole word
GenreTitles ==
    {before \o genre_map[i][1] \o after :
        before \in {"", "deep ", "The "}, i \in 1..Len(genre_map),
        after \in {"", " music", " - Live"}}

\* find_similar_song and get_enhanced_genres (content_analyzer.py 237) call
\* detect_genres on a title
detect_title_genres(title) ==
    /\ probe.op = NoProbe.op
    /\ probe' = [op |-> "detect_genres", args |-> <<title>>,
                 ret |-> detect_genres(title)]
    /\ UNCHANGED <<radio_enabled, config_file, recently_played, song_queues,
                   last_played, cycle, outcome, cycles, chain, last_songs,
                   title_cache, inserted, fed, radio_mode, channel, voice,
                   in_radio, last_toggle, title_info_cache>>

NextGenres == \E title \in GenreTitles \cup AnalysisTitles : detect_title_genres(title)

\* titles with a mood word, with and without an artist
MoodTitles ==
    {"sad songs", "Adele - Chill Evening", "happy", "Queen - Party Anthem",
     "- Untitled", "Daft Punk -"}

\* find_similar_song from its call to the list _generate_search_strategies
\* returns (recommendation_engine.py 323-335), for an order of the list of
\* get_enhanced_genres
generate_strategies(title) ==
    LET Generated(artist, song_title, genres, moods) ==
            probe' = [op |-> "_generate_search_strategies",
                      args |-> <<artist, song_title, genres, moods>>,
                      ret |-> _generate_search_strategies(artist, song_title,
                                                          genres, moods)]
        Parsed(song_info) ==
            \E genres \in Orders(get_enhanced_genres(title, song_info.artist)) :
                Generated(song_info.artist, song_info.song_title, genres,
                          detect_moods(title))
    IN /\ probe.op = NoProbe.op
       /\ Parsed(parse_title_info(title))
       /\ UNCHANGED <<radio_enabled, config_file, recently_played, song_queues,
                      last_played, cycle, outcome, cycles, chain, last_songs,
                      title_cache, inserted, fed, radio_mode, channel, voice,
                      in_radio, last_toggle, title_info_cache>>

NextStrategies ==
    \E title \in AnalysisTitles \cup GenreTitles \cup MoodTitles :
        generate_strategies(title)

SpecStrategies == InitHistory /\ [][NextStrategies]_vars

SpecGenres == InitHistory /\ [][NextGenres]_vars

\* a cache that files a title under its lower-case form
CacheKey_lowered(title) == Lower(title)

\* the key of a title in title_info_cache (title_processor.py 203, 239)
CacheKey(title) == title

\* TitleProcessor.parse_title_info with its cache (title_processor.py
\* 195-241): the dict it returns and the cache it leaves.  An empty title
\* returns before anything is stored.
parse_title_info_cached(cache, title) ==
    IF CacheKey(title) \in DOMAIN cache
    THEN [ret |-> cache[CacheKey(title)], cache |-> cache]
    ELSE IF ~Truthy(title)
    THEN [ret |-> parse_title_info(title), cache |-> cache]
    ELSE LET Stored(result) ==
                 [ret |-> result, cache |-> Put(cache, CacheKey(title), result)]
         IN Stored(parse_title_info(title))

\* the titles parse_title_info is called with
CacheTitles ==
    {"", ReferenceSong[2], LowerCaseReference.title, OtherArtist.title,
     SameSongRespaced.title, "lofi beats", "Drake - Reaction feat. Future"}

\* one call of parse_title_info by any of its callers
parse_title(title) ==
    /\ LET Call(done) ==
               /\ probe' = [op |-> "parse_title_info", args |-> <<title>>,
                            ret |-> done.ret]
               /\ title_info_cache' = done.cache
       IN Call(parse_title_info_cached(title_info_cache, title))
    /\ UNCHANGED <<radio_enabled, config_file, recently_played, song_queues,
                   last_played, cycle, outcome, cycles, chain, last_songs,
                   title_cache, inserted, fed, radio_mode, channel, voice,
                   in_radio, last_toggle>>

\* TitleProcessor.__init__ (title_processor.py 95): a TitleProcessor is
\* constructed, as RadioCore.is_recently_played does on every call
\* (radio_core.py 129), and the next calls go to its empty cache
new_title_processor ==
    /\ title_info_cache # EmptyDict
    /\ title_info_cache' = EmptyDict
    /\ UNCHANGED <<radio_enabled, config_file, recently_played, song_queues,
                   last_played, cycle, outcome, cycles, chain, last_songs,
                   title_cache, inserted, fed, radio_mode, channel, voice,
                   in_radio, last_toggle, probe>>

NextCache ==
    \/ \E title \in CacheTitles : parse_title(title)
    \/ new_title_processor

SpecCache == InitHistory /\ [][NextCache]_vars

-----------------------------------------------------------------------------
(* Properties of one call of find_similar_song (SpecEngine)                *)

\* the call of guild_id has returned
Returned(guild_id) ==
    cycle[guild_id].pc = "idle" /\ outcome[guild_id].kind \in {"found", "not_found"}

\* C1: find_similar_song never returns a song whose title equals the
\* reference title when letter case is ignored, whether the song comes from
\* a strategy or from the fallback.
C1_NeverReferenceTitle ==
    \A g \in Guilds : \A i \in 1..Len(outcome[g].added_songs) :
        Lower(outcome[g].added_songs[i][2]) # Lower(outcome[g].title)

\* The fallback search answered with the reference title in lower case
\* first, and the call returned the song after it.
C1_Witness ==
    \E g \in Guilds :
        /\ Returned(g)
        /\ fed[g].fallback_results = <<LowerCaseReference, OtherArtist>>
        /\ outcome[g].added_songs = <<SongOf(OtherArtist)>>

\* the position in results of the first candidate that is not the reference
\* title and is likely music; 0 when there is none
FirstPlausible(title, results) ==
    LET plausible == {i \in 1..Len(results) : results[i].title \in PresentableTitles(Engine, title)}
    IN IF plausible = {} THEN 0 ELSE SetMin(plausible)

\* the same, for candidates that also carry a URL and whose title no earlier
\* candidate of results has
FirstFresh(title, results) ==
    LET fresh == {i \in 1..Len(results) :
                    /\ results[i].title \in PresentableTitles(Engine, title)
                    /\ Truthy(SongUrl(results[i]))
                    /\ \A j \in 1..(i - 1) : results[j].title # results[i].title}
    IN IF fresh = {} THEN 0 ELSE SetMin(fresh)

\* every strategy search of the call of g returned an empty list and the
\* fallback search a non-empty one
OnlyFallbackAnswered(g) ==
    Returned(g) /\ fed[g].strategies_empty /\ fed[g].fallback_results # <<>>

\* C2 as stated: when every strategy search returns an empty list and the
\* fallback search does not, the call returns the first fallback candidate
\* that is not the reference title and is likely music.
C2_AsStated ==
    \A g \in Guilds :
        LET results == fed[g].fallback_results
            first == FirstPlausible(outcome[g].title, results)
        IN OnlyFallbackAnswered(g) /\ first # 0
            => outcome[g].added_songs = <<SongOf(results[first])>>

\* C2: when every strategy search returns an empty list and the fallback
\* search does not, the call returns the first fallback candidate that is
\* not the reference title, is likely music, carries a URL and has a title
\* no earlier fallback candidate has; it returns None when there is no such
\* candidate.
C2_FirstFreshFallback ==
    \A g \in Guilds :
        LET results == fed[g].fallback_results
            first == FirstFresh(outcome[g].title, results)
        IN OnlyFallbackAnswered(g)
            => outcome[g].added_songs =
                    IF first = 0 THEN <<>> ELSE <<SongOf(results[first])>>

\* The first likely-music fallback candidate has no URL and the call
\* returned the second one.
C2_Witness ==
    \E g \in Guilds : \E urlless \in UrlLess :
        /\ OnlyFallbackAnswered(g)
        /\ fed[g].fallback_results = <<urlless, OtherArtist>>
        /\ outcome[g].added_songs = <<SongOf(OtherArtist)>>

\* C3: a strategy search that raises is handled as one that found nothing:
\* the call goes on to the next strategy, or to the fallback after the last
\* one, with its tried titles and its same-artist count as they were, and
\* nothing is returned or queued at that step; a fallback search that
\* raises ends the call with None; no call ends with an exception.
C3_RaiseIsNoResults ==
    [][\A g \in Guilds :
        /\ outcome'[g].kind # "error"
        /\ (cycle[g].pc = "strategies" /\ cycle'[g] # cycle[g]
            /\ fed'[g].reply = "raise")
            => /\ cycle'[g].pc =
                    IF cycle[g].query_idx + 1 < Cardinality(cycle[g].search_queries)
                    THEN "strategies" ELSE "fallback"
               /\ cycle'[g].query_idx = cycle[g].query_idx + 1
               /\ cycle'[g].tried_titles = cycle[g].tried_titles
               /\ cycle'[g].same_artist_count = cycle[g].same_artist_count
               /\ outcome'[g] = outcome[g]
               /\ song_queues' = song_queues
        /\ (cycle[g].pc = "fallback" /\ cycle'[g] # cycle[g]
            /\ fed'[g].reply = "raise")
            => outcome'[g].kind = "not_found"]_vars

\* A strategy search raised and a later strategy's candidate was returned.
C3_Witness ==
    \E g \in Guilds :
        /\ Returned(g)
        /\ fed[g].raised
        /\ outcome[g].kind = "found"
        /\ outcome[g].stage = "strategy"

\* C4 as stated: the call returns a song whenever some reply held a
\* candidate that is not the reference title, is likely music, has a URL
\* and, in a strategy, is not turned down by the same-artist rules.
C4_AsStated ==
    \A g \in Guilds : Returned(g) /\ fed[g].offered => outcome[g].kind = "found"

\* C4: the call returns a song whenever some reply held a candidate that is
\* not the reference title, is likely music, has a URL, has a title that is
\* not yet among the tried titles when the loop reaches it and, in a
\* strategy, is not turned down by the same-artist rules.
C4_NoneOnlyOnExhaustion ==
    \A g \in Guilds : Returned(g) /\ fed[g].offered_fresh => outcome[g].kind = "found"

\* A strategy search raised, every strategy came up empty-handed and the
\* fallback then offered a fresh candidate, which was returned.
C4_Witness ==
    \E g \in Guilds :
        /\ Returned(g)
        /\ fed[g].offered_fresh
        /\ fed[g].raised
        /\ outcome[g].kind = "found"
        /\ outcome[g].stage = "fallback"

\* C5: in a call fed only other songs by the reference artist, the
\* same-artist counter never exceeds max_same_artist.
C5_CounterWithinCap ==
    \A g \in Guilds :
        fed[g].same_artist_only => cycle[g].same_artist_count <= max_same_artist

-----------------------------------------------------------------------------
(* Properties of successive radio cycles of one guild (SpecSession)        *)

\* the step ends a radio cycle of g that picked a song
PicksSong(g) ==
    /\ cycle[g].pc # "idle"
    /\ cycle'[g].pc = "idle"
    /\ outcome'[g].kind = "found"

\* C6: over successive radio cycles of one guild, each seeded by the pick
\* of the one before, no more than max_same_artist picks in a row are by
\* the artist of the track they were picked for.
C6_SameArtistRunBounded ==
    \A g \in Guilds : chain[g].run <= max_same_artist

\* C7: the song a radio cycle picks and appends to the queue is not one
\* RadioCore.is_recently_played holds for when it is picked.
C7_PickNotRecentlyPlayed ==
    [][\A g \in Guilds :
        PicksSong(g) => ~is_recently_played(g, outcome'[g].added_songs[1][2])]_vars

\* C9: when a radio cycle returns with a pick, the pick is in the guild's
\* recently-played history.
C9_PickRecorded ==
    [][\A g \in Guilds :
        PicksSong(g) =>
            /\ g \in DOMAIN recently_played'
            /\ \E i \in 1..Len(recently_played'[g]) :
                    recently_played'[g][i] = outcome'[g].added_songs[1]]_vars

-----------------------------------------------------------------------------
(* Properties of the histories (SpecHistory)                               *)

\* the last min(Len(log), cap) entries of log, in order
LastEntries(log, cap) ==
    SubSeq(log, Len(log) - Min(Len(log), cap) + 1, Len(log))

\* C8: after n insertions for a guild each history holds the latest
\* min(n, cap) inserted entries in insertion order, with cap 10 for
\* RadioCore.recently_played and RadioCog.last_songs and cap 15 for
\* RadioCog._title_cache.
C8_BoundedFifo ==
    \A g \in Guilds :
        /\ Get(recently_played, g, <<>>) = LastEntries(Get(inserted.recently_played, g, <<>>), 10)
        /\ Get(last_songs, g, <<>>) = LastEntries(Get(inserted.last_songs, g, <<>>), 10)
        /\ Get(title_cache, g, <<>>) = LastEntries(Get(inserted.title_cache, g, <<>>), 15)

\* Sixteen entries went into the RadioCog histories of a guild: last_songs
\* holds the last ten of them and _title_cache the last fifteen.
C8_Witness ==
    \E g \in Guilds :
        /\ g \in DOMAIN last_songs
        /\ Len(inserted.last_songs[g]) = 16
        /\ Len(last_songs[g]) = 10
        /\ Len(title_cache[g]) = 15
        /\ last_songs[g][1] = inserted.last_songs[g][7]

-----------------------------------------------------------------------------
(* Properties of the radio settings (SpecConfig)                           *)

\* C10: is_radio_enabled is false for every guild id that has no entry in
\* radio_enabled, whatever load_config made of the config file.
C10_AbsentMeansDisabled ==
    \A g \in ConfigGuilds :
        g \notin DOMAIN radio_enabled => is_radio_enabled(g) = FALSE

\* The config file is unreadable, radio was switched on for guild 2 and
\* guild 1 has no entry: is_radio_enabled is true for 2 and false for 1.
C10_Witness ==
    /\ config_file.kind = "corrupt"
    /\ 1 \notin DOMAIN radio_enabled
    /\ 2 \in DOMAIN radio_enabled
    /\ is_radio_enabled(2)
    /\ ~is_radio_enabled(1)

-----------------------------------------------------------------------------
(* Properties of /radio of radiocog.py (SpecRadioCog)                      *)

\* C11: toggling radio mode twice for a guild brings is_radio_enabled of
\* the guild back to what it was, whether the guild had no entry, false or
\* true, and leaves the flag of every other guild as it was.
C11_ToggleTwiceRestores ==
    \A g \in Guilds :
        LET twice == Toggled(Toggled(radio_mode, g), g)
        IN /\ Get(twice, g, FALSE) = RadioCog_is_radio_enabled(g)
           /\ \A h \in Guilds \ {g} :
                /\ h \in DOMAIN twice <=> h \in DOMAIN radio_mode
                /\ Get(twice, h, FALSE) = RadioCog_is_radio_enabled(h)

\* Guild 1 had no entry and was toggled twice: it has radio off again, and
\* guild 2 still has no entry.
C11_Witness ==
    /\ 1 \in DOMAIN radio_mode
    /\ ~RadioCog_is_radio_enabled(1)
    /\ 2 \notin DOMAIN radio_mode

-----------------------------------------------------------------------------
(* Properties of /radio on|off and the config file (SpecConfig)            *)

\* C12: when /radio on|off has completed and save_config has written the
\* file, the file holds the flag of every guild of radio_enabled under the
\* guild id as a string and nothing else, and load_config of the file gives
\* radio_enabled back, keyed by integers.
C12_SavedMapIsMemory ==
    last_toggle.saved = "written" =>
        /\ config_file.kind = "json"
        /\ DOMAIN config_file.radio_enabled = {str(g) : g \in DOMAIN radio_enabled}
        /\ \A g \in DOMAIN radio_enabled :
                config_file.radio_enabled[str(g)] = radio_enabled[g]
        /\ load_config(config_file) = radio_enabled

\* Radio is on for guild 12 and off for guild 1, and the last command was
\* saved.
C12_Witness ==
    /\ last_toggle.saved = "written"
    /\ DOMAIN radio_enabled = {1, 12}
    /\ radio_enabled[12]
    /\ ~radio_enabled[1]

\* C13: when save_config fails in /radio on|off, the command still takes
\* effect: radio_enabled holds the requested value for the guild,
\* is_radio_enabled returns it, and no exception leaves the command.
C13_FailedSaveStillToggles ==
    last_toggle.saved = "failed" =>
        /\ last_toggle.guild_id \in DOMAIN radio_enabled
        /\ radio_enabled[last_toggle.guild_id] = (last_toggle.state = "on")
        /\ is_radio_enabled(last_toggle.guild_id) = (last_toggle.state = "on")
        /\ ~last_toggle.raised

\* /radio on failed to save and left an unreadable file; radio is on for
\* the guild.
C13_Witness ==
    /\ last_toggle.saved = "failed"
    /\ last_toggle.state = "on"
    /\ config_file.kind = "corrupt"
    /\ is_radio_enabled(last_toggle.guild_id)

-----------------------------------------------------------------------------
(* Properties of the calls of add_similar_songs_to_queue in the bot (Spec) *)

\* the step is a call of RadioService.add_similar_songs_to_queue for g
CalledFor(g) == cycles'[g] = cycles[g] + 1

\* the step issues no search for g and leaves the queue of g and the
\* recently-played history of g as they are
NoOpFor(g) ==
    /\ cycle'[g] = cycle[g]
    /\ cycle'[g].pc = "idle"
    /\ outcome'[g].added_songs = <<>>
    /\ Get(song_queues', str(g), <<>>) = Get(song_queues, str(g), <<>>)
    /\ str(g) \in DOMAIN song_queues' <=> str(g) \in DOMAIN song_queues
    /\ Get(recently_played', g, <<>>) = Get(recently_played, g, <<>>)
    /\ g \in DOMAIN recently_played' <=> g \in DOMAIN recently_played

\* C14: a call of add_similar_songs_to_queue for a guild that has radio
\* off returns an empty list, issues no search and leaves the queue and the
\* recently-played history of the guild unchanged.
C14_DisabledIsNoOp ==
    [][\A g \in Guilds :
        CalledFor(g) /\ ~Get(radio_enabled, g, FALSE)
            => outcome'[g].kind = "disabled" /\ NoOpFor(g)]_vars

\* A guild with radio off and a song both played and queued had
\* add_similar_songs_to_queue called.
C14_Witness ==
    \E g \in Guilds :
        /\ outcome[g].kind = "disabled"
        /\ cycles[g] = 1
        /\ str(g) \in DOMAIN last_played
        /\ Get(song_queues, str(g), <<>>) # <<>>

\* C15: a call of add_similar_songs_to_queue for a guild that has radio on
\* and no last-played song returns an empty list, issues no search and
\* leaves the queue and the recently-played history of the guild unchanged.
C15_NoLastPlayedIsNoOp ==
    [][\A g \in Guilds :
        CalledFor(g) /\ Get(radio_enabled, g, FALSE) /\ str(g) \notin DOMAIN last_played
            => outcome'[g].kind = "no_last_played" /\ NoOpFor(g)]_vars

\* A guild with radio on, a queued song and no song played yet had
\* add_similar_songs_to_queue called.
C15_Witness ==
    \E g \in Guilds :
        /\ outcome[g].kind = "no_last_played"
        /\ cycles[g] = 1
        /\ is_radio_enabled(g)
        /\ Get(song_queues, str(g), <<>>) # <<>>

-----------------------------------------------------------------------------
(* Properties of what a radio cycle adds (SpecSession)                     *)

\* C16: a call of add_similar_songs_to_queue returns a list of at most one
\* song and makes the queue of its guild at most one entry longer: the
\* queue grows only at the step the call returns, and by exactly the list
\* returned, which holds the (url, title) find_similar_song has returned.
C16_OneSongPerCycle ==
    [][\A g \in Guilds :
        (CalledFor(g) \/ cycle'[g] # cycle[g]) =>
            LET queue == Get(song_queues, str(g), <<>>)
                grown == Get(song_queues', str(g), <<>>)
                returns == cycle[g].pc # "idle" /\ cycle'[g].pc = "idle"
            IN /\ Len(outcome'[g].added_songs) <= 1
               /\ grown = IF returns THEN queue \o outcome'[g].added_songs ELSE queue
               /\ \A i \in 1..Len(outcome'[g].added_songs) :
                    \E c \in RadioCatalog : outcome'[g].added_songs[i] = SongOf(c)]_vars

\* The third cycle of a guild has returned one song, which is the only
\* song in the queue.
C16_Witness ==
    \E g \in Guilds :
        /\ cycles[g] = 3
        /\ Returned(g)
        /\ Len(outcome[g].added_songs) = 1
        /\ Get(song_queues, str(g), <<>>) = outcome[g].added_songs

-----------------------------------------------------------------------------
(* Properties of what the channel is told                                  *)

\* the last message in the channel of g; "" when there is none
LastMessage(g) == IF channel[g] = <<>> THEN "" ELSE channel[g][Len(channel[g])]

\* C17: when RadioService.add_similar_songs_to_queue runs with radio on and
\* a last-played song and the recommendation yields no song, the channel
\* is shown the notice that no similar song was found, and the call ends
\* without an exception.
C17_NoticeWhenNothingFound ==
    \A g \in Guilds :
        Returned(g) /\ outcome[g].kind = "not_found" => LastMessage(g) = Notice

-----------------------------------------------------------------------------
(* Properties of two guilds side by side (SpecGuilds)                      *)

\* the step leaves the radio flag, the recently-played history and the
\* queue of guild b as they are
Untouched(b) ==
    /\ b \in DOMAIN radio_enabled' <=> b \in DOMAIN radio_enabled
    /\ Get(radio_enabled', b, FALSE) = Get(radio_enabled, b, FALSE)
    /\ b \in DOMAIN recently_played' <=> b \in DOMAIN recently_played
    /\ Get(recently_played', b, <<>>) = Get(recently_played, b, <<>>)
    /\ str(b) \in DOMAIN song_queues' <=> str(b) \in DOMAIN song_queues
    /\ Get(song_queues', str(b), <<>>) = Get(song_queues, str(b), <<>>)

\* the step belongs to guild a: it is a /radio command of a, or a call of
\* add_similar_songs_to_queue for a starts, goes on or returns
StepOf(a) ==
    \/ CalledFor(a)
    \/ cycle'[a] # cycle[a]
    \/ last_toggle' # last_toggle /\ last_toggle'.guild_id = a
    \/ Get(radio_enabled', a, FALSE) # Get(radio_enabled, a, FALSE)

\* C19: a radio operation for guild A (/radio, add_to_recently_played,
\* add_similar_songs_to_queue) leaves the radio flag, the recently-played
\* history and the queue of every other guild B unchanged, however the
\* radio cycles of the two guilds interleave.
C19_GuildsPartitioned ==
    [][\A a \in Guilds : StepOf(a) => \A b \in Guilds \ {a} : Untouched(b)]_vars

\* Both guilds have a call in flight, one in its strategies and one in its
\* fallback, and each has its own history.
C19_Witness ==
    /\ cycle[1].pc = "fallback"
    /\ cycle[2].pc = "strategies"
    /\ DOMAIN recently_played = {1, 2}
    /\ recently_played[1] # recently_played[2]

-----------------------------------------------------------------------------
(* Properties of playback (SpecPlayback)                                   *)

\* C20: at most one call of play_next_song per guild is inside the radio
\* branch at a time: while one waits in add_similar_songs_to_queue, no call
\* from /play, /skip, the after callback or a failed playback enters it.
C20_OneRadioCallInFlight ==
    \A g \in Guilds : in_radio[g] <= 1

\* g's voice client is disconnected by the step
Disconnects(g) ==
    voice[g].state # "disconnected" /\ voice'[g].state = "disconnected"

\* a call of play_next_song of g comes back from add_similar_songs_to_queue
RadioReturns(g) == in_radio'[g] = in_radio[g] - 1

-----------------------------------------------------------------------------
(* Properties of the title functions (SpecAnalysis)                        *)

\* C22: calculate_similarity(a, a) is 1.0 for every non-empty title a,
\* whether or not an artist or a song title can be extracted from a.
C22_SimilarityReflexive ==
    probe.op = "calculate_similarity"
    /\ probe.args[1] = probe.args[2] /\ probe.args[1] # ""
    => probe.ret = <<1, 1>>

\* A title without an artist was compared with itself.
C22_Witness ==
    /\ probe.op = "calculate_similarity"
    /\ probe.args = <<"cat video", "cat video">>
    /\ parse_title_info("cat video").artist = None
    /\ probe.ret = <<1, 1>>

\* C23: calculate_similarity(a, b) equals calculate_similarity(b, a) for
\* all titles a and b.
C23_SimilarityCommutative ==
    probe.op = "calculate_similarity"
    => probe.ret = calculate_similarity(probe.args[2], probe.args[1])

\* C24: a title that holds an album or compilation keyword or a non-music
\* keyword is classified as not music, also when it has the shape
\* "Artist - Title", a music-indicator phrase or an extractable artist and
\* song title.
C24_NegativeSignalsWin ==
    probe.op = "is_likely_music_content"
    /\ \/ \E i \in 1..Len(album_indicators) :
                Contains(Lower(probe.args[1]), album_indicators[i])
       \/ \E i \in 1..Len(non_music_indicators) :
                Contains(Lower(probe.args[1]), non_music_indicators[i])
    => probe.ret = FALSE

\* A title with a non-music keyword, the shape "Artist - Title", a music
\* indicator and an extractable artist and song title was classified.
C24_Witness ==
    /\ probe.op = "is_likely_music_content"
    /\ probe.args = <<"Daft Punk - Interview (Official Audio)">>
    /\ Contains(Lower(probe.args[1]), "interview")
    /\ Contains(probe.args[1], " - ")
    /\ Contains(Lower(probe.args[1]), "official audio")
    /\ Truthy(parse_title_info(probe.args[1]).artist)
    /\ Truthy(parse_title_info(probe.args[1]).song_title)
    /\ probe.ret = FALSE

\* no source of get_enhanced_genres finds a genre for the title and artist
NoGenreSignal(title, artist) ==
    /\ detect_genres(title) = <<>>
    /\ Truthy(artist) =>
            /\ \A i \in 1..Len(ARTIST_GENRE_MAPPING) :
                    \A j \in 1..Len(ARTIST_GENRE_MAPPING[i][2]) :
                        ~Contains(Lower(artist), ARTIST_GENRE_MAPPING[i][2][j])
            /\ get_genre_from_search(artist, analyzer_extract_song_title(title, artist)) = {}
    /\ \A i \in 1..Len(GENRE_TERMS) : ~Contains(Lower(title), GENRE_TERMS[i])

\* C25: get_enhanced_genres returns at least one genre for every title and
\* every artist, no artist included, and exactly "trending" when no source
\* finds a genre.
C25_GenresNeverEmpty ==
    probe.op = "get_enhanced_genres" =>
        /\ probe.ret # {}
        /\ NoGenreSignal(probe.args[1], probe.args[2]) => probe.ret = {"trending"}

\* A title without any genre signal, called without an artist, got
\* "trending"; the sources are not silent for every input.
C25_Witness ==
    /\ probe.op = "get_enhanced_genres"
    /\ probe.args = <<"cat video", None>>
    /\ NoGenreSignal("cat video", None)
    /\ ~NoGenreSignal("Drake - Reaction feat. Future", "Drake")
    /\ probe.ret = {"trending"}

-----------------------------------------------------------------------------
(* Properties of the searches of one call of find_similar_song (SpecSearch) *)

\* the step hands the call of g the answer of a search
Answered(g) == fed'[g].searches = fed[g].searches + 1

\* C26: within one call of find_similar_song a title that passed the
\* validity filters is looked at once.  After a search that accepted
\* nothing, tried_titles has grown by exactly the titles of the reply that
\* are likely music and not the reference title; and a song that is
\* returned has a title that was not among tried_titles when the reply
\* came, and is the first result of the reply with that title.
C26_TriedOnce ==
    [][\A g \in Guilds :
        LET cy == cycle[g]
            results == fed'[g].results
            passed == {results[i].title : i \in 1..Len(results)}
                      \cap PresentableTitles(Engine, cy.title)
            pick == outcome'[g].added_songs[1]
            First(title) ==
                CHOOSE i \in 1..Len(results) :
                    /\ results[i].title = title
                    /\ \A j \in 1..(i - 1) : results[j].title # title
        IN Answered(g) =>
            /\ cycle'[g].pc # "idle" =>
                    cycle'[g].tried_titles = cy.tried_titles \cup passed
            /\ outcome'[g].kind = "found" =>
                    /\ pick[2] \notin cy.tried_titles
                    /\ pick = SongOf(results[First(pick[2])])]_vars

\* An earlier search had returned "Daft Punk - Da Funk" without a URL; the
\* last one returned it with a URL before another song, and the other song
\* was returned.
C26_Witness ==
    \E g \in Guilds :
        /\ outcome[g].kind = "found"
        /\ outcome[g].title = ReferenceSong[2]
        /\ fed[g].tried_again
        /\ fed[g].results = <<SameArtistWebpage, OtherArtist>>
        /\ outcome[g].added_songs = <<SongOf(OtherArtist)>>

\* C27: the searches of one call of find_similar_song come one after the
\* other and stop at the first acceptance: a search is answered only while
\* nothing has been accepted, a strategy search is the next of the
\* strategies in turn, the fallback search is answered only after every
\* strategy has been searched without an acceptance, and a call is answered
\* at most as many searches as it has strategies, plus one.
C27_SerialShortCircuit ==
    [][\A g \in Guilds :
        LET cy == cycle[g]
            strategies == Cardinality(cy.search_queries)
            accepted == StrategyResults(Engine, cy, fed'[g].results, 1,
                                        cy.tried_titles, cy.same_artist_count).ret
        IN Answered(g) =>
            /\ cy.pc \in {"strategies", "fallback"}
            /\ outcome[g].kind # "found"
            /\ fed[g].searches = cy.query_idx
            /\ fed'[g].searches <= strategies + 1
            /\ cy.pc = "strategies" =>
                    /\ cy.query_idx < strategies
                    /\ IF accepted # NoSong
                       THEN /\ cycle'[g].pc = "idle"
                            /\ outcome'[g].added_songs = <<accepted>>
                       ELSE /\ cycle'[g].pc # "idle"
                            /\ cycle'[g].query_idx = cy.query_idx + 1
            /\ cy.pc = "fallback" =>
                    /\ cy.query_idx = strategies
                    /\ cycle'[g].pc = "idle"]_vars

\* Every strategy was searched without an acceptance, and the fallback
\* search, the last of more than two searches, found the song.
C27_Witness ==
    \E g \in Guilds :
        /\ outcome[g].kind = "found"
        /\ outcome[g].stage = "fallback"
        /\ fed[g].searches > 2
        /\ cycle[g].pc = "idle"

\* The first result of a strategy reply that the loop of
\* _try_search_strategies lets through when it reaches it: its title is not
\* among the tried titles, is not the reference title and is likely music,
\* the same-artist rules do not turn it down, and, if need_url, it has a
\* URL.  0 when there is none.
FirstPassing(cy, results, need_url) ==
    LET Passes(i, at) ==
            /\ results[i].title \notin at.tried_titles
            /\ results[i].title \in PresentableTitles(Engine, cy.title)
            /\ ~SameArtistRulesReject(Engine, cy, results[i], at.same_artist_count)
            /\ need_url => Truthy(SongUrl(results[i]))
        passing == {i \in 1..Len(results) :
                        Passes(i, StrategyLocalsAt(Engine, cy, results, i))}
    IN IF passing = {} THEN 0 ELSE SetMin(passing)

\* the call of g, waiting for a strategy search, is handed its answer, and
\* the song returned is results[first], or none if first is 0
ReturnsFirst(g, first) ==
    IF first = 0
    THEN cycle'[g].pc # "idle" /\ outcome'[g] = outcome[g]
    ELSE /\ cycle'[g].pc = "idle"
         /\ outcome'[g].stage = "strategy"
         /\ outcome'[g].added_songs = <<SongOf(fed'[g].results[first])>>

\* C28 as stated: the song _try_search_strategies returns is the earliest
\* result, in the order of the strategies and then of the reply, that passes
\* the validity filters and is not turned down by the same-artist rules.
C28_AsStated ==
    [][\A g \in Guilds :
        Answered(g) /\ cycle[g].pc = "strategies"
        => ReturnsFirst(g, FirstPassing(cycle[g], fed'[g].results, FALSE))]_vars

\* C28: the song _try_search_strategies returns is the earliest result, in
\* the order of the strategies and then of the reply, that passes the
\* validity filters, is not turned down by the same-artist rules and has a
\* URL; a passing result without a URL is skipped.  With no such result the
\* call goes on to the next search.
C28_EarliestWithUrl ==
    [][\A g \in Guilds :
        Answered(g) /\ cycle[g].pc = "strategies"
        => ReturnsFirst(g, FirstPassing(cycle[g], fed'[g].results, TRUE))]_vars

\* The first strategy search returned a same-artist song without a URL and
\* then a song by another artist, and the call returned the latter.
C28_Witness ==
    \E g \in Guilds :
        /\ outcome[g].kind = "found"
        /\ outcome[g].stage = "strategy"
        /\ outcome[g].title = ReferenceSong[2]
        /\ fed[g].searches = 1
        /\ fed[g].results = <<SameArtistUrlLess, OtherArtist>>
        /\ outcome[g].added_songs = <<SongOf(OtherArtist)>>

-----------------------------------------------------------------------------
(* Properties of one turn of the result loop (SpecTurn)                    *)

\* the turn kept in probe was for a result by the artist of the reference
\* title with another song title, and _is_same_artist was asked about it
SameArtistTurn ==
    /\ probe.op = "_try_search_strategies"
    /\ probe.ret.is_same_artist # ""
    /\ LET Is(current, result) ==
               /\ Truthy(current.artist) /\ Truthy(result.artist)
               /\ Engine.lower[current.artist] = Engine.lower[result.artist]
               /\ ~(/\ Truthy(current.song_title) /\ Truthy(result.song_title)
                    /\ Engine.lower[current.song_title] = Engine.lower[result.song_title])
       IN Is(Engine.parse_title_info[probe.args[1]],
             Engine.parse_title_info[probe.args[2].title])

\* C29: _is_same_artist rejects a result by the reference artist with
\* another song title exactly when query_idx > 0 and same_artist_count >
\* max_same_artist, so that in the first strategy it is accepted whatever
\* the counter is; and a turn of the result loop adds one to
\* same_artist_count exactly when _is_same_artist accepted the result, and
\* otherwise leaves it alone.
C29_CapAfterFirstStrategy ==
    /\ SameArtistTurn =>
          /\ probe.ret.is_same_artist \in {"True", "False"}
          /\ probe.ret.is_same_artist = "False"
                <=> (probe.args[5] > 0 /\ probe.args[4] > max_same_artist)
          /\ probe.args[5] = 0 => probe.ret.is_same_artist = "True"
    /\ probe.op = "_try_search_strategies" =>
          probe.ret.after.same_artist_count =
              IF probe.ret.is_same_artist = "True"
              THEN probe.args[4] + 1 ELSE probe.args[4]

\* In a strategy after the first, with more than max_same_artist same-artist
\* results counted, another song by the reference artist was rejected and
\* the counter left alone.
C29_Witness ==
    /\ SameArtistTurn
    /\ probe.args[5] > 0
    /\ probe.args[4] = max_same_artist + 1
    /\ probe.ret.is_same_artist = "False"
    /\ probe.ret.after.same_artist_count = probe.args[4]
    /\ probe.ret.after.ret = NoSong

-----------------------------------------------------------------------------
(* The identical song under another title (SpecSearch)                     *)

\* parse_title_info finds the same artist and the same song title in both
\* titles, letter case ignored
SameArtistAndSong(title1, title2) ==
    LET Same(info1, info2) ==
            /\ Truthy(info1.artist) /\ Truthy(info2.artist)
            /\ Engine.lower[info1.artist] = Engine.lower[info2.artist]
            /\ Truthy(info1.song_title) /\ Truthy(info2.song_title)
            /\ Engine.lower[info1.song_title] = Engine.lower[info2.song_title]
    IN Same(Engine.parse_title_info[title1], Engine.parse_title_info[title2])

\* C30: find_similar_song never returns a song in whose title
\* parse_title_info finds the artist and the song title of the reference
\* title, letter case ignored, whether the song comes from a strategy or
\* from the fallback.
C30_NeverSameSong ==
    \A g \in Guilds : \A i \in 1..Len(outcome[g].added_songs) :
        ~SameArtistAndSong(outcome[g].title, outcome[g].added_songs[i][2])

-----------------------------------------------------------------------------
(* Properties of the recently-played lookup (SpecRecent)                   *)

\* the threshold the specification gives for the similarity of a title to a
\* recent title
StatedThreshold == Frac(6, 10)

\* title is among the recent titles of g, or is more similar than
\* StatedThreshold to one of them, or has the song title of one of them
\* under another artist
StatedRecentlyPlayed(g, title) ==
    /\ g \in DOMAIN recently_played
    /\ \E i \in 1..Len(recently_played[g]) :
          LET Near(recent_title, info1, info2) ==
                  \/ recent_title = title
                  \/ FracLess(StatedThreshold, Similarity[title][recent_title])
                  \/ /\ Truthy(info1.song_title) /\ Truthy(info2.song_title)
                     /\ Engine.lower[info1.song_title] = Engine.lower[info2.song_title]
                     /\ info1.artist # info2.artist
          IN Near(recently_played[g][i][2], Engine.parse_title_info[title],
                  Engine.parse_title_info[recently_played[g][i][2]])

\* C31: RadioCore.is_recently_played(guild, title) is true exactly when
\* title is among the guild's recent titles, or its similarity to some
\* recent title exceeds 0.6, or some recent title has the same parsed song
\* title with another artist; it is false for a guild without history.
C31_RecentlyPlayedAsStated ==
    probe.op = "is_recently_played"
        => probe.ret = StatedRecentlyPlayed(probe.args[1], probe.args[2])

-----------------------------------------------------------------------------
(* Ambiguous titles (SpecAnalysis)                                         *)

\* title sets off one of the negative signals of is_likely_music_content:
\* an album, compilation or non-music keyword, mostly upper-case words, more
\* than three non-ASCII characters or exclamation marks, a duration word, a
\* year with "mix" or "set", or more than two artist conjunctions
NegativeSignal(title) ==
    LET Signal(title_lower, words) ==
            \/ \E i \in 1..Len(album_indicators) :
                    Contains(title_lower, album_indicators[i])
            \/ \E i \in 1..Len(non_music_indicators) :
                    Contains(title_lower, non_music_indicators[i])
            \/ /\ Len(words) > 3
               /\ 10 * Cardinality({i \in 1..Len(words) :
                                       IsUpperStr(words[i]) /\ Len(words[i]) > 2})
                    > 4 * Len(words)
            \/ Cardinality({i \in 1..Len(title) : IsNonAscii(CharAt(title, i))}) > 3
            \/ Count(title, "!") > 3
            \/ \E i \in 1..Len(length_indicators) :
                    Contains(title_lower, length_indicators[i])
            \/ /\ HasYear(title_lower)
               /\ Contains(title_lower, "mix") \/ Contains(title_lower, "set")
            \/ SumCounts(title_lower, artist_indicators, 1) > 2
    IN Signal(Lower(title), Words(title))

\* C32: a non-empty title that sets off none of the negative signals is
\* classified as music by is_likely_music_content, also when it has no
\* shape "Artist - Title", no music-indicator phrase and no extractable
\* artist.
C32_AmbiguousIsMusic ==
    probe.op = "is_likely_music_content"
    /\ probe.args[1] # ""
    /\ ~NegativeSignal(probe.args[1])
    => probe.ret = TRUE

-----------------------------------------------------------------------------
(* Properties of detect_genres (SpecGenres)                                *)

\* the names of the top-level genres of genre_map
TopLevelGenres == {genre_map[i][1] : i \in 1..Len(genre_map)}

\* C33: detect_genres returns a list without duplicates of names of
\* top-level genres, and the list holds every top-level genre whose name
\* occurs in the title as a whole word ("house" and "trance" as well as
\* "electronic").
C33_TopLevelGenresDetected ==
    probe.op = "detect_genres"
    => /\ \A i \in 1..Len(probe.ret) : probe.ret[i] \in TopLevelGenres
       /\ \A i \in 1..Len(probe.ret), j \in 1..Len(probe.ret) :
                probe.ret[i] = probe.ret[j] => i = j
       /\ \A genre \in TopLevelGenres :
                HasWholeWord(Lower(probe.args[1]), genre)
                => \E i \in 1..Len(probe.ret) : probe.ret[i] = genre

-----------------------------------------------------------------------------
(* The cache of parse_title_info (SpecCache)                               *)

\* C34: whatever calls of parse_title_info came before and whenever the
\* cache was emptied, a call returns what parse_title_info computes for the
\* title without a cache, and every dict in the cache is the one computed
\* for its title; so emptying the cache changes no result.
C34_CacheIsMemoization ==
    /\ probe.op = "parse_title_info" => probe.ret = parse_title_info(probe.args[1])
    /\ \A title \in DOMAIN title_info_cache :
            title_info_cache[title] = parse_title_info(title)

\* A title was parsed and answered from the cache while the title that
\* differs from it in letter case only was in the cache too.
C34_Witness ==
    /\ probe.op = "parse_title_info"
    /\ probe.args = <<LowerCaseReference.title>>
    /\ {ReferenceSong[2], LowerCaseReference.title} \subseteq DOMAIN title_info_cache
    /\ probe.ret = title_info_cache[LowerCaseReference.title]
    /\ probe.ret # title_info_cache[ReferenceSong[2]]

-----------------------------------------------------------------------------
(* A call in which find_similar_song raises (SpecFailure)                  *)

\* C35: add_similar_songs_to_queue never raises; when find_similar_song
\* raises, at its metadata extraction or later, the call returns an empty
\* list and leaves the playback queues as they were.
C35_FailureIsEmptyReturn ==
    [][\A g \in Guilds :
        /\ outcome'[g].kind # "raised"
        /\ outcome'[g] # outcome[g] /\ outcome'[g].kind = "error"
           => /\ outcome'[g].added_songs = <<>>
              /\ song_queues' = song_queues
              /\ cycle'[g].pc = "idle"]_vars

\* The last played song had no title: find_similar_song raised, the call
\* returned an empty list and the queue stayed empty.
C35_Witness ==
    \E g \in Guilds :
        /\ cycles[g] = 1
        /\ outcome[g].kind = "error"
        /\ outcome[g].added_songs = <<>>
        /\ get_last_played(str(g)) = TitlelessSong
        /\ Get(song_queues, str(g), <<>>) = <<>>

-----------------------------------------------------------------------------
(* bin/cogs/music/radiocog.py: the entries find_similar_songs accepts      *)
(* (SpecPicks)                                                              *)

\* entry.get('title', 'Unknown Title')
EntryTitle(entry) == IF entry.title = None THEN "Unknown Title" ELSE entry.title

\* the entries a search of find_similar_songs can return: three songs, the
\* first of them once more without its title, a video about music and an
\* entry without webpage_url
PickCatalog ==
    { Candidate("Daft Punk - One More Time", None, "https://youtu.be/one"),
      Candidate(None, None, "https://youtu.be/one"),
      Candidate("Daft Punk - Get Lucky", None, "https://youtu.be/lucky"),
      Candidate("Adele - Hello", None, "https://youtu.be/adele"),
      Candidate("Daft Punk Interview 2013", None, "https://youtu.be/talk"),
      Candidate("Daft Punk - Da Funk", None, None) }

\* the lists of entries of one search
PickReplies ==
    {<<>>} \cup {<<a>> : a \in PickCatalog}
    \cup {<<a, b>> : a, b \in PickCatalog}

PickTitles == {EntryTitle(entry) : entry \in PickCatalog}

PickSimilarity ==
    [title \in PickTitles |->
        [prev_title \in PickTitles |-> calculate_similarity(title, prev_title)]]

\* self.similarity_threshold, radio.similarity_threshold of the config
similarity_threshold == Frac(6, 10)

non_music_keywords ==
    <<"how to make", "tutorial", "explained", "breakdown",
      "fl studio", "ableton", "logic pro", "daw",
      "in 1 minute", "in 1 min", "shorts", "#shorts",
      "reaction", "reacting", "react", "podcast", "interview">>

_is_likely_tutorial_or_shorts(title) ==
    IF ~Truthy(title) THEN TRUE
    ELSE \E i \in 1..Len(non_music_keywords) :
            Contains(Lower(title), non_music_keywords[i])

\* _is_recently_played without the check of the URL
_is_recently_played_by_title(guild_id, url, title) ==
    IF guild_id = 0 THEN FALSE
    ELSE \E i \in 1..Len(Get(title_cache, guild_id, <<>>)) :
            FracLess(similarity_threshold,
                     PickSimilarity[title][Get(title_cache, guild_id, <<>>)[i].title])

_is_recently_played(guild_id, url, title) ==
    IF guild_id = 0 THEN FALSE
    ELSE IF InSeq(url, Get(last_songs, guild_id, <<>>)) THEN TRUE
    ELSE \E i \in 1..Len(Get(title_cache, guild_id, <<>>)) :
            FracLess(similarity_threshold,
                     PickSimilarity[title][Get(title_cache, guild_id, <<>>)[i].title])

\* _is_likely_tutorial_or_shorts over the titles of the entries
LikelyTutorial == [title \in PickTitles |-> _is_likely_tutorial_or_shorts(title)]

\* does the loop over the entries accept this one
Accepted(guild_id, entry) ==
    /\ Truthy(entry.webpage_url)
    /\ ~_is_recently_played(guild_id, entry.webpage_url, EntryTitle(entry))
    /\ ~LikelyTutorial[EntryTitle(entry)]

\* most songs a run of SpecPicks accepts for a guild
MaxPicks == 4

\* The loop of find_similar_songs over the entries of one search (radiocog.py
\* 346-378) with limit=1, as add_similar_songs_to_queue calls it: the first
\* entry it accepts goes into the histories and ends the loop.  Nothing is
\* awaited inside the loop, so the step is one step of whichever cycle of the
\* guild the search answered.
\* the index of the first entry the loop accepts, 0 when it accepts none
FirstAccepted(guild_id, entries) ==
    IF \E i \in 1..Len(entries) : Accepted(guild_id, entries[i])
    THEN SetMin({i \in 1..Len(entries) : Accepted(guild_id, entries[i])})
    ELSE 0

find_similar_songs_entries(guild_id, entries) ==
    LET Loop(before, first) ==
            /\ probe' = [op |-> "find_similar_songs",
                         args |-> <<guild_id, entries, before>>,
                         ret |-> IF first = 0 THEN <<>>
                                 ELSE <<<<entries[first].webpage_url,
                                          EntryTitle(entries[first])>>>>]
            /\ IF first = 0
               THEN UNCHANGED <<last_songs, title_cache, inserted>>
               ELSE _add_to_recent_history(guild_id, entries[first].webpage_url,
                                           EntryTitle(entries[first]))
    IN /\ Len(Get(inserted.last_songs, guild_id, <<>>)) < MaxPicks
       /\ Loop(Get(last_songs, guild_id, <<>>), FirstAccepted(guild_id, entries))
       /\ UNCHANGED <<radio_enabled, config_file, recently_played, song_queues,
                      last_played, cycle, outcome, cycles, chain, fed, radio_mode,
                      channel, voice, in_radio, last_toggle, title_info_cache>>

\* the guild whose cycles SpecPicks runs
PickGuilds == {1}

NextPicks ==
    \E guild_id \in PickGuilds, entries \in PickReplies :
        find_similar_songs_entries(guild_id, entries)

SpecPicks == InitHistory /\ [][NextPicks]_vars

-----------------------------------------------------------------------------
(* bin/cogs/music/radiocog.py: add_similar_songs_to_queue, attempt by      *)
(* attempt (SpecRetry)                                                      *)

\* await message.edit(embed=embed): the text of the last message changes
Edited(messages, text) == Append(SubSeq(messages, 1, Len(messages) - 1), text)

\* most calls of add_similar_songs_to_queue in a run of SpecRetry
MaxRetryCalls == 2

\* what one call of find_similar_songs ends with: the entries of the search
\* that ended it, or an exception
AttemptAnswers ==
    {[kind |-> "entries", entries |-> entries, text |-> ""] : entries \in PickReplies}
    \cup {[kind |-> "raise", entries |-> <<>>, text |-> e] : e \in Exceptions}

\* add_similar_songs_to_queue up to its first call of find_similar_songs
\* (radiocog.py 424-441): the progress message is in the channel
RadioCog_looking(guild_id) ==
    /\ cycle[guild_id].pc = "idle"
    /\ Calls < MaxRetryCalls
    /\ cycles' = [cycles EXCEPT ![guild_id] = @ + 1]
    /\ channel' = [channel EXCEPT ![guild_id] = Append(@, Looking)]
    /\ cycle' = [cycle EXCEPT ![guild_id] =
            [IdleCycle EXCEPT !.pc = "find_similar_songs", !.attempt = 0]]
    /\ outcome' = [outcome EXCEPT ![guild_id] = NoOutcome]
    /\ UNCHANGED <<radio_enabled, config_file, recently_played, song_queues,
                   last_played, chain, last_songs, title_cache, inserted, fed,
                   radio_mode, voice, in_radio, last_toggle, probe, title_info_cache>>

\* One turn of `for attempt in range(max_attempts)` (radiocog.py 439-450)
\* and, when the loop ends, the rest of the call (452-496): find_similar_songs
\* returns the first entry it accepts, or an empty list, or raises.
RadioCog_attempt_returns(guild_id, answer) ==
    LET Ends(kind, songs) ==
            /\ cycle' = [cycle EXCEPT ![guild_id] = IdleCycle]
            /\ outcome' = [outcome EXCEPT ![guild_id] =
                    [kind |-> kind, title |-> "", added_songs |-> songs,
                     stage |-> "radiocog"]]
        Turn(attempt, first) ==
            IF answer.kind = "raise"
            THEN /\ channel' = [channel EXCEPT ![guild_id] =
                        Append(@, ErrorText(answer.text))]
                 /\ Ends("error", <<>>)
                 /\ UNCHANGED <<last_songs, title_cache, inserted, song_queues>>
            ELSE IF first # 0
            THEN /\ _add_to_recent_history(guild_id,
                        answer.entries[first].webpage_url,
                        EntryTitle(answer.entries[first]))
                 /\ song_queues' = Put(song_queues, str(guild_id),
                        Append(Get(song_queues, str(guild_id), <<>>),
                               <<answer.entries[first].webpage_url,
                                 EntryTitle(answer.entries[first])>>))
                 /\ channel' = [channel EXCEPT ![guild_id] = Edited(@, Success)]
                 /\ Ends("found", <<<<answer.entries[first].webpage_url,
                                      EntryTitle(answer.entries[first])>>>>)
            ELSE IF attempt < max_attempts - 1
            THEN /\ cycle' = [cycle EXCEPT ![guild_id].attempt = attempt + 1]
                 /\ channel' = [channel EXCEPT ![guild_id] =
                        Edited(@, Retrying(attempt + 2))]
                 /\ UNCHANGED <<last_songs, title_cache, inserted, song_queues,
                                outcome>>
            ELSE /\ channel' = [channel EXCEPT ![guild_id] = Edited(@, Notice)]
                 /\ Ends("not_found", <<>>)
                 /\ UNCHANGED <<last_songs, title_cache, inserted, song_queues>>
    IN /\ cycle[guild_id].pc = "find_similar_songs"
       /\ Turn(cycle[guild_id].attempt, FirstAccepted(guild_id, answer.entries))
       /\ UNCHANGED <<radio_enabled, config_file, recently_played, last_played,
                      cycles, chain, fed, radio_mode, voice, in_radio, last_toggle,
                      probe, title_info_cache>>

NextRetry ==
    \E guild_id \in PickGuilds :
        \/ RadioCog_looking(guild_id)
        \/ \E answer \in AttemptAnswers : RadioCog_attempt_returns(guild_id, answer)

SpecRetry == InitHistory /\ [][NextRetry]_vars

-----------------------------------------------------------------------------
(* Properties of the picks of radiocog.py (SpecPicks)                      *)

\* the last n elements of a list
LastOf(list, n) == SubSeq(list, SetMax({1, Len(list) - n + 1}), Len(list))

NoDuplicate(list) == \A i, j \in 1..Len(list) : list[i] = list[j] => i = j

\* C36: the song find_similar_songs accepts has a URL that was not in
\* last_songs of the guild when it was accepted and is in it after the step;
\* last_songs of a guild holds the last ten picks and no URL twice.
C36_NeverRepicked ==
    /\ \A guild_id \in DOMAIN last_songs :
        /\ NoDuplicate(last_songs[guild_id])
        /\ last_songs[guild_id] =
                LastOf(inserted.last_songs[guild_id], max_last_songs)
    /\ probe.op = "find_similar_songs" =>
        \A i \in 1..Len(probe.ret) :
            /\ ~InSeq(probe.ret[i][1], probe.args[3])
            /\ last_songs[probe.args[1]] = Append(probe.args[3], probe.ret[i][1])

\* a search offered a URL of the history first and another song after it,
\* and the other song was accepted
C36_Witness ==
    /\ probe.op = "find_similar_songs"
    /\ Len(probe.args[2]) = 2
    /\ InSeq(probe.args[2][1].webpage_url, probe.args[3])
    /\ Len(probe.ret) = 1
    /\ probe.ret[1][1] = probe.args[2][2].webpage_url

-----------------------------------------------------------------------------
(* Properties of the attempts of radiocog.py (SpecRetry)                   *)

\* the calls of find_similar_songs the call of a guild has made and got an
\* answer to, before and after a step
AnsweredBefore(guild_id) ==
    IF cycle[guild_id].pc = "idle" THEN 0 ELSE cycle[guild_id].attempt

\* C37: a call of RadioCog.add_similar_songs_to_queue calls
\* find_similar_songs at most three times; the attempt that returns a song
\* ends the call with that one song appended to the queue; every other step
\* of the call leaves the queue as it is, and the call that reports that no
\* similar song was found has made three attempts.
C37_BoundedRetry ==
    [][\A guild_id \in PickGuilds :
        LET queue == Get(song_queues, str(guild_id), <<>>)
            queue_after == Get(song_queues', str(guild_id), <<>>)
            ended == cycle[guild_id].pc # "idle" /\ cycle'[guild_id].pc = "idle"
        IN /\ AnsweredBefore(guild_id) < 3
           /\ cycle'[guild_id].attempt < 3
           /\ IF ended /\ outcome'[guild_id].kind = "found"
              THEN /\ Len(outcome'[guild_id].added_songs) = 1
                   /\ queue_after = queue \o outcome'[guild_id].added_songs
                   /\ channel'[guild_id][Len(channel'[guild_id])] = Success
              ELSE queue_after = queue
           /\ ended /\ outcome'[guild_id].kind = "not_found" =>
                /\ AnsweredBefore(guild_id) + 1 = 3
                /\ channel'[guild_id][Len(channel'[guild_id])] = Notice
    ]_vars

\* a call found its song at the second attempt, after a call that found none
C37_Witness ==
    /\ cycles[1] = 2
    /\ outcome[1].kind = "found"
    /\ Len(channel[1]) = 2
    /\ channel[1][1] = Notice
    /\ channel[1][2] = Success
    /\ Len(Get(song_queues, "1", <<>>)) = 1

-----------------------------------------------------------------------------
(* Properties of /stop (SpecStop)                                          *)

\* C38: from the completion of /stop on until a user enqueues a song, the
\* queue of the guild is empty, no track is taken from it and the song
\* played last stays what it was.
C38_StoppedStaysEmpty ==
    [][\A guild_id \in PlaybackGuilds :
        voice[guild_id].stop = "stopped" /\ voice'[guild_id].stop = "stopped" =>
            /\ Get(song_queues', str(guild_id), <<>>) = <<>>
            /\ get_last_played(str(guild_id))' = get_last_played(str(guild_id))
    ]_vars

-----------------------------------------------------------------------------
(* Progress of the playback (SpecProgress)                                 *)

\* the queue of a guild, before a step
QueueOf(guild_id) == Get(song_queues, str(guild_id), <<>>)

\* a step in which a track is popped and fails while songs are left
TrackFails(guild_id) ==
    /\ voice'[guild_id].failed = "more"
    /\ \/ get_last_played(str(guild_id))' # get_last_played(str(guild_id))
       \/ Len(QueueOf(guild_id)') < Len(QueueOf(guild_id))
       \/ voice[guild_id].failed # "more"

\* C39: when a track popped by play_next_song fails and songs are left in
\* the queue, one more call of play_next_song is created; the queue only
\* loses its head and gains songs at its end, so the failed track is not put
\* back; and a queue that holds songs leads to a track playing or to an
\* empty queue.
C39_PlaybackProgress ==
    /\ [][\A guild_id \in PlaybackGuilds :
            /\ TrackFails(guild_id) =>
                    /\ QueueOf(guild_id)' # <<>>
                    /\ voice'[guild_id].scheduled >= 1
            /\ \E added \in {<<>>} \cup {<<song>> : song \in PlaybackSongs}
                                   \cup SimilarSongs :
                    \/ QueueOf(guild_id)' = QueueOf(guild_id) \o added
                    \/ /\ QueueOf(guild_id) \o added # <<>>
                       /\ QueueOf(guild_id)' = Tail(QueueOf(guild_id) \o added)
       ]_vars
    /\ \A guild_id \in PlaybackGuilds :
            (QueueOf(guild_id) # <<>>)
                ~> (voice[guild_id].state = "playing" \/ QueueOf(guild_id) = <<>>)

\* a track has failed, songs are left and a call of play_next_song waits to
\* be started
C39_Witness ==
    /\ voice[1].failed = "more"
    /\ voice[1].state = "silent"
    /\ voice[1].scheduled >= 1
    /\ Len(QueueOf(1)) >= 1

-----------------------------------------------------------------------------
(* Properties of the strategies find_similar_song generates                *)
(* (SpecStrategies)                                                         *)

\* the queries the branch `if len(primary_search_queries) < 3` appends for
\* an artist and a list of genres
SparseQueries(artist, genres) ==
    (IF Truthy(artist)
     THEN {"artists similar to " \o artist \o " singles official audio -mix"}
     ELSE {})
    \cup (IF genres # <<>>
          THEN {"new " \o genres[1] \o " singles 2024 -mix -compilation"}
          ELSE {})

\* C40: the strategies find_similar_song generates are a set of at least
\* three different queries, and none of them is a query of the branch for
\* fewer than three strategies.
C40_EnoughStrategies ==
    probe.op = "_generate_search_strategies" =>
        /\ Cardinality(probe.ret) >= 3
        /\ probe.ret \cap SparseQueries(probe.args[1], probe.args[3]) = {}

\* strategies were generated for a title without artist, genre word and mood
C40_Witness ==
    /\ probe.op = "_generate_search_strategies"
    /\ probe.args[1] = None
    /\ probe.args[3] = <<"trending">>
    /\ probe.args[4] = <<>>
    /\ Cardinality(probe.ret) = 4

=====
